---- MODULE Spec2Model ----
(***************************************************************************)
(* DataGest: the advisory lock on shared storage (core/lock_manager.py)    *)
(* and the multi-step workflows (workflows/*.py, core/api.py).             *)
(*                                                                         *)
(* WfSpec  -- one run of one workflow (import, fetch, publish, restore,    *)
(*            return to latest, load history), in the callback and in the  *)
(*            signal variant, with cancellation and substrate errors; an   *)
(*            import finds the lock absent, empty, stale or fresh.         *)
(* Spec    -- several clients call LockManager.acquire / release /         *)
(*            force_unlock on one (project, dataset) lock path; every      *)
(*            filesystem access of a call is one step, so calls interleave.*)
(***************************************************************************)
EXTENDS Integers, Sequences, FiniteSets, TLC

VARIABLES
    now,        \* wall clock, in hours (datetime.now(timezone.utc))
    lockFile,   \* the lock file <locks_root>/<project>/<dataset>.lock
    lm,         \* per client: frame of the running LockManager call
                \*   pc        position inside the call ("idle" between calls)
                \*   lock_info acquire()'s local lock_info
                \*   existing  the record the call read last
                \*   iteration acquire()'s loop index (for _ in range(2))
                \*   result    value returned by the last finished call
                \*   op        the call that is running or returned last
                \*   alone     history: no other client had a call running
                \*             at any time since this acquire call started
                \*   removed   history: what this acquire call has unlinked
    calls,      \* number of LockManager calls started so far, all clients
    held,       \* history: record of the client's successful, un-released acquire
    judged      \* history: first record the running/last acquire judged stale

lockVars == <<now, lockFile, lm, calls, held, judged>>

VARIABLES
    run,        \* the arguments of the run: kind, variant and options
    wf,         \* the frame of the run
                \*   pc            index of the current instruction (0: body left)
                \*   phase         "run", "inop", "notice", "in_acquire",
                \*                 "finally", "in_release", "done"
                \*   attempt       loop index of _run_network_op_with_retry
                \*   lock_acquired, has_changes   locals of the same name
                \*   on_main       current_branch == "main"
                \*   recovering    inside the non-fast-forward handler
                \*   log           operations invoked so far, in order (the
                \*                 attempts of one retried step are one entry)
                \*   tries         history: invocations of the operation of the
                \*                 retried step that runs or ran last
                \*   errors        number of error callback invocations
                \*   result        the (success, message) outcome
                \*   seen          history: a cancel check observed the flag
                \*   pre           history: cancel was requested before the start
                \*   fails         history: failed attempts of that step
                \*   last          history: the last error an attempt of a retried
                \*                 step raised (step, operation, attempt, error)
                \*   retried       history: the largest number of failed attempts
                \*                 of one step that were retried
                \*   releases      history: number of release calls
                \*   delivered     history_loaded was emitted
                \*   dirty         history: git.status() reported local changes
                \*   head          history: the answer of git.current_branch()
                \*   escaped       an exception left the run's entry point
                \*   checked       history: the cancel flag was tested and
                \*                 nothing was called or invoked since
                \*   reported      history: an operation delivered a progress
                \*                 report while the cancel flag was set
    cancelled   \* the cancel flag (BaseWorkflow._cancelled, cancel_cb())

wfVars == <<run, wf, cancelled>>

VARIABLES
    hist,       \* one commit of a loaded history and its image deltas
    ui,         \* the main window: its running task and the start requests
    ws,         \* one call of WorkspaceManager.init_workspace and the mirror
    st,         \* calls of WorkspaceManager.get_state on a mirror
    imp,        \* per client: the lock phase of its import run
    pg          \* the progress reports delivered to the caller's callback

otherVars == <<hist, ui, ws, st, imp, pg>>

vars ==
    <<now, lockFile, lm, calls, held, judged, run, wf, cancelled, hist, ui,
      ws, st, imp, pg>>

\* The parts of the state a specification does not use.
NoHist == [phase |-> "none"]
NoUi == [phase |-> "none"]
NoWs == [phase |-> "none"]
NoSt == [phase |-> "none"]
NoImp == [phase |-> "none"]

NoPg == [phase |-> "none"]

(***************************************************************************)
(* Bounds                                                                  *)
(***************************************************************************)
MaxTime == 4

MaxCalls == 3

(***************************************************************************)
(* Clients: one LockManager instance each (lock_manager.py:24-36).         *)
(* c1 and c3 are two application instances of the same user on the same    *)
(* machine; c3 runs in administrative mode; c2 is another user.            *)
(***************************************************************************)
Clients == {"c1", "c2", "c3"}

Username == [c \in Clients |-> IF c = "c2" THEN "u2" ELSE "u1"]

Machine == [c \in Clients |-> "m1"]

AdminMode == [c \in Clients |-> c = "c3"]

TtlHours == [c \in Clients |-> IF c = "c2" THEN 2 ELSE 1]

AppVersion == [c \in Clients |-> "1.0"]

\* The clients that call acquire; c3 is the administrator's console and only
\* releases or force-unlocks.
Acquirers == {"c1", "c2"}

DatasetId == "d1"

\* acquire()'s `for _ in range(2)` (lock_manager.py:116).
LoopRange == 2

\* A timestamp string datetime.fromisoformat cannot parse.
BadTimestamp == -1

\* Python's None for a LockInfo.
NoLock ==
    [dataset_id |-> "", username |-> "", machine |-> "", timestamp |-> 0,
     app_version |-> "", ttl_hours |-> 0]

LockInfo(c, t) ==
    [dataset_id |-> DatasetId, username |-> Username[c], machine |-> Machine[c],
     timestamp |-> t, app_version |-> AppVersion[c], ttl_hours |-> TtlHours[c]]

\* The clock reading when the clients start.
StartTime == 2

\* Records a holder that is no longer running may have left behind: with an
\* unparseable timestamp, already older than its TTL at StartTime, still
\* fresh at StartTime, or written by a machine whose clock is ahead.
PriorLocks ==
    { [dataset_id |-> DatasetId, username |-> u, machine |-> m, timestamp |-> t,
       app_version |-> "0.9", ttl_hours |-> 1] :
          u \in {"u1"}, m \in {"m1", "m2"},
          t \in {BadTimestamp, 0, 1, StartTime + 1} }

\* The lock file: absent, present without a parseable record ("empty": just
\* created by os.open, or truncated by a crash), or holding a record.
\* owner is the client whose call created the file ("prior" before Init).
AbsentFile == [state |-> "absent", owner |-> "none", info |-> NoLock]

EmptyFile(o) == [state |-> "empty", owner |-> o, info |-> NoLock]

DataFile(o, l) == [state |-> "data", owner |-> o, info |-> l]

(***************************************************************************)
(* Pure helpers of LockManager                                             *)
(***************************************************************************)
\* _read_lock_info: None when the file is missing or does not parse.
ReadLockInfo(f) == IF f.state = "data" THEN f.info ELSE NoLock

SameLockNever(left, right) == FALSE

SameLockHolderOnly(left, right) ==
    /\ left.dataset_id = right.dataset_id
    /\ left.username = right.username
    /\ left.machine = right.machine

\* _same_lock: all six fields are equal (lock_manager.py:60-68).
SameLock(left, right) ==
    /\ left.dataset_id = right.dataset_id
    /\ left.username = right.username
    /\ left.machine = right.machine
    /\ left.timestamp = right.timestamp
    /\ left.app_version = right.app_version
    /\ left.ttl_hours = right.ttl_hours

IsStaleAtTtl(l, t) ==
    IF l.timestamp = BadTimestamp THEN TRUE ELSE t - l.timestamp >= l.ttl_hours

\* is_stale: unparseable timestamp, or age strictly greater than the
\* record's own ttl_hours.
IsStale(l, t) ==
    IF l.timestamp = BadTimestamp THEN TRUE ELSE t - l.timestamp > l.ttl_hours

IsHolderUserOnly(c, e) == e.username = Username[c]

\* release(): same_user and same_machine (lock_manager.py:138-140).
IsHolder(c, e) == e.username = Username[c] /\ e.machine = Machine[c]

(***************************************************************************)
(* Initial state                                                           *)
(***************************************************************************)
\* The frame of a client that is between two calls; r is what the last
\* call, o, returned ("none", "true", "false").
IdleFrame(o, r) ==
    [pc |-> "idle", lock_info |-> NoLock, existing |-> NoLock, iteration |-> 0,
     result |-> r, op |-> o, alone |-> TRUE, removed |-> "none"]

LockInit ==
    /\ now = StartTime
    /\ lockFile \in {AbsentFile, EmptyFile("prior")}
                      \cup {DataFile("prior", l) : l \in PriorLocks}
    /\ lm = [c \in Clients |-> IdleFrame("none", "none")]
    /\ calls = 0
    /\ held = [c \in Clients |-> NoLock]
    /\ judged = [c \in Clients |-> NoLock]

\* One more call may start.
Budget ==
    /\ calls < MaxCalls
    /\ calls' = calls + 1

\* History bookkeeping when client c starts a call: the acquire calls of
\* the other clients that are running are no longer alone.
Disturb(l, c) ==
    [d \in Clients |->
        IF d # c /\ l[d].pc # "idle" /\ l[d].op = "acquire"
           THEN [l[d] EXCEPT !.alone = FALSE]
           ELSE l[d]]

\* A call finishes returning v.
Return(c, v) == lm' = [lm EXCEPT ![c] = IdleFrame(lm[c].op, v)]

Goto(c, label) == lm' = [lm EXCEPT ![c].pc = label]

\* The file is held open by the acquire call that created it and has not
\* written it yet.  Unlinking an open file succeeds on POSIX and raises
\* PermissionError (an OSError) on Windows.
OpenByWriter(f) ==
    f.state = "empty" /\ f.owner \in Clients /\ lm[f.owner].pc = "acq_write"

\* History bookkeeping when release/force_unlock removes the file f.
Released(f) ==
    IF f.owner \in Clients THEN [held EXCEPT ![f.owner] = NoLock] ELSE held

(***************************************************************************)
(* LockManager.acquire, one filesystem access per step                     *)
(***************************************************************************)
\* lock_manager.py:103-111: build lock_info with the current time.
AcquireEnter(c) ==
    /\ lm[c].pc = "idle"
    /\ lm' = Disturb([lm EXCEPT ![c] =
                 [pc |-> "acq_open", lock_info |-> LockInfo(c, now),
                  existing |-> NoLock, iteration |-> 0, result |-> "none",
                  op |-> "acquire",
                  alone |-> \A d \in Clients \ {c} : lm[d].pc = "idle",
                  removed |-> "none"]], c)
    /\ judged' = [judged EXCEPT ![c] = NoLock]
    /\ UNCHANGED <<now, lockFile, held>>

AcquireBegin(c) ==
    /\ UNCHANGED <<wfVars, otherVars>>
    /\ c \in Acquirers
    /\ Budget
    /\ AcquireEnter(c)

\* lock_manager.py:116-118: os.open(O_CREAT | O_EXCL | O_WRONLY).
AcquireOpen(c) ==
    /\ UNCHANGED <<wfVars, otherVars>>
    /\ lm[c].pc = "acq_open"
    /\ IF lockFile.state = "absent"
          THEN /\ lockFile' = EmptyFile(c)
               /\ Goto(c, "acq_write")
          ELSE /\ lockFile' = lockFile
               /\ Goto(c, "acq_read")
    /\ UNCHANGED <<now, calls, held, judged>>

\* lock_manager.py:119-121: json.dump through the descriptor, return True.
\* The write lands in the file this call created; if that file was unlinked
\* meanwhile, the directory entry is not restored.
AcquireWrite(c) ==
    /\ UNCHANGED <<wfVars, otherVars>>
    /\ lm[c].pc = "acq_write"
    /\ LET mine == lockFile.state = "empty" /\ lockFile.owner = c IN
       /\ lockFile' = IF mine THEN DataFile(c, lm[c].lock_info) ELSE lockFile
       /\ held' = [held EXCEPT ![c] = IF mine THEN lm[c].lock_info ELSE NoLock]
    /\ Return(c, "true")
    /\ UNCHANGED <<now, calls, judged>>

\* lock_manager.py:122-125: FileExistsError -> read, give up unless stale.
AcquireRead(c) ==
    /\ UNCHANGED <<wfVars, otherVars>>
    /\ lm[c].pc = "acq_read"
    /\ LET e == ReadLockInfo(lockFile) IN
       IF e = NoLock \/ ~IsStale(e, now)
          THEN /\ Return(c, "false")
               /\ judged' = judged
          ELSE /\ lm' = [lm EXCEPT ![c].pc = "acq_reread", ![c].existing = e]
               /\ judged' = [judged EXCEPT ![c] =
                                IF judged[c] = NoLock THEN e ELSE judged[c]]
    /\ UNCHANGED <<now, lockFile, calls, held>>

\* lock_manager.py:70-77: _try_remove_stale_if_unchanged, the re-read.
AcquireReread(c) ==
    /\ UNCHANGED <<wfVars, otherVars>>
    /\ lm[c].pc = "acq_reread"
    /\ LET current == ReadLockInfo(lockFile) IN
       IF \/ current = NoLock
          \/ ~SameLock(current, lm[c].existing)
          \/ ~IsStale(current, now)
          THEN Return(c, "false")
          ELSE Goto(c, "acq_unlink")
    /\ UNCHANGED <<now, lockFile, calls, held, judged>>

\* History bookkeeping: what an unlink of file f by acquire takes away, a
\* stale record or something else (a record younger than its TTL, or a file
\* another call has created and not written yet).
Unlinked(f) ==
    IF f.state = "data" /\ IsStale(f.info, now) THEN "stale" ELSE "live"

\* lock_manager.py:79-85 and 126-129: unlink whatever is at the path now;
\* a vanished file makes the call return False; after the second
\* iteration's unlink the loop is over and the call returns False.
AcquireUnlink(c) ==
    /\ UNCHANGED <<wfVars, otherVars>>
    /\ lm[c].pc = "acq_unlink"
    /\ \/ /\ lockFile.state = "absent" \/ OpenByWriter(lockFile)
          /\ Return(c, "false")
          /\ lockFile' = lockFile
       \/ /\ lockFile.state # "absent"
          /\ lockFile' = AbsentFile
          /\ IF lm[c].iteration + 1 >= LoopRange
                THEN Return(c, "false")
                ELSE lm' = [lm EXCEPT ![c].pc = "acq_open",
                                      ![c].iteration = @ + 1,
                                      ![c].removed = Unlinked(lockFile)]
    /\ UNCHANGED <<now, calls, held, judged>>

(***************************************************************************)
(* LockManager.release                                                     *)
(***************************************************************************)
\* lock_manager.py:132-134: nothing to release when the file is missing.
ReleaseEnter(c) ==
    /\ lm[c].pc = "idle"
    /\ judged' = [judged EXCEPT ![c] = NoLock]
    /\ IF lockFile.state = "absent"
          THEN lm' = Disturb([lm EXCEPT ![c] = IdleFrame("release", "true")],
                             c)
          ELSE lm' = Disturb([lm EXCEPT ![c].pc = "rel_check",
                                        ![c].result = "none",
                                        ![c].op = "release"], c)
    /\ UNCHANGED <<now, lockFile, held>>

ReleaseBegin(c) ==
    /\ UNCHANGED <<wfVars, otherVars>>
    /\ Budget
    /\ ReleaseEnter(c)

\* lock_manager.py:136-141: only the recorded holder, unless admin_mode.
ReleaseCheck(c) ==
    /\ UNCHANGED <<wfVars, otherVars>>
    /\ lm[c].pc = "rel_check"
    /\ LET e == ReadLockInfo(lockFile) IN
       IF e # NoLock /\ ~AdminMode[c] /\ ~IsHolder(c, e)
          THEN Return(c, "false")
          ELSE lm' = [lm EXCEPT ![c].pc = "rel_unlink", ![c].existing = e]
    /\ UNCHANGED <<now, lockFile, calls, held, judged>>

\* lock_manager.py:143-147: unlink; OSError (file already gone) -> False.
ReleaseUnlink(c) ==
    /\ UNCHANGED <<wfVars, otherVars>>
    /\ lm[c].pc = "rel_unlink"
    /\ \/ /\ lockFile.state = "absent" \/ OpenByWriter(lockFile)
          /\ Return(c, "false")
          /\ UNCHANGED <<lockFile, held>>
       \/ /\ lockFile.state # "absent"
          /\ lockFile' = AbsentFile
          /\ held' = Released(lockFile)
          /\ Return(c, "true")
    /\ UNCHANGED <<now, calls, judged>>

(***************************************************************************)
(* LockManager.force_unlock                                                *)
(***************************************************************************)
\* lock_manager.py:150-152
ForceUnlockBegin(c) ==
    /\ UNCHANGED <<wfVars, otherVars>>
    /\ AdminMode[c]
    /\ Budget
    /\ lm[c].pc = "idle"
    /\ judged' = [judged EXCEPT ![c] = NoLock]
    /\ IF lockFile.state = "absent"
          THEN lm' = Disturb([lm EXCEPT ![c] =
                                 IdleFrame("force_unlock", "true")], c)
          ELSE lm' = Disturb([lm EXCEPT ![c].pc = "fu_unlink",
                                        ![c].result = "none",
                                        ![c].op = "force_unlock"], c)
    /\ UNCHANGED <<now, lockFile, held>>

\* lock_manager.py:153-157
ForceUnlockUnlink(c) ==
    /\ UNCHANGED <<wfVars, otherVars>>
    /\ lm[c].pc = "fu_unlink"
    /\ \/ /\ lockFile.state = "absent" \/ OpenByWriter(lockFile)
          /\ Return(c, "false")
          /\ UNCHANGED <<lockFile, held>>
       \/ /\ lockFile.state # "absent"
          /\ lockFile' = AbsentFile
          /\ held' = Released(lockFile)
          /\ Return(c, "true")
    /\ UNCHANGED <<now, calls, judged>>

\* Time passes.
Tick ==
    /\ UNCHANGED <<wfVars, otherVars>>
    /\ now < MaxTime
    /\ now' = now + 1
    /\ UNCHANGED <<lockFile, lm, calls, held, judged>>

LockNext ==
    \/ Tick
    \/ \E c \in Clients :
          \/ AcquireBegin(c)
          \/ AcquireOpen(c)
          \/ AcquireWrite(c)
          \/ AcquireRead(c)
          \/ AcquireReread(c)
          \/ AcquireUnlink(c)
          \/ ReleaseBegin(c)
          \/ ReleaseCheck(c)
          \/ ReleaseUnlink(c)
          \/ ForceUnlockBegin(c)
          \/ ForceUnlockUnlink(c)

(***************************************************************************)
(* Workflows (core/api.py: DataGestCore, variant "core"; workflows/*.py:   *)
(* the *Workflow classes, variant "workflow").  One run of one workflow;   *)
(* the body of the run is a list of instructions executed in order.        *)
(***************************************************************************)
\* The client that runs the workflow.
Importer == "c1"

Kinds == {"import", "fetch", "publish", "load_history", "restore",
          "return_to_latest"}

Variants == {"core", "workflow"}

\* retries: int = 3; attempts = max(retries, 1)
Attempts == 3

(***************************************************************************)
(* Errors raised by the substrate, by the attributes the code looks at:    *)
(* the class, and which marker substrings the message contains.            *)
(***************************************************************************)
Err(cls, retryable, nff, ntc) ==
    [cls |-> cls, retryable |-> retryable, nff |-> nff, ntc |-> ntc]

NoErr == Err("none", FALSE, FALSE, FALSE)

\* _is_retryable_network_error(str(exc))
IsRetryableNetworkError(e) == e.retryable

\* _is_non_fast_forward_error(str(exc))
IsNonFastForwardError(e) == e.nff

\* "nothing to commit" in str(exc).lower()
IsNothingToCommit(e) == e.ntc

GitOps == {"init_workspace", "git_pull", "git_add", "git_checkout",
           "git_status", "git_current_branch", "git_log"}

DvcOps == {"dvc_pull", "dvc_push", "dvc_add", "dvc_checkout"}

FileOps == {"mkdir", "clear_folder", "copy_files", "write_metadata"}

\* The errors an operation can raise.
ErrorsOf(op) ==
    CASE op = "git_push" ->
            {Err("GitError", r, n, FALSE) : r \in BOOLEAN, n \in BOOLEAN}
                \cup {Err("OSError", FALSE, FALSE, FALSE)}
      [] op = "git_commit" ->
            {Err("GitError", r, FALSE, c) : r \in BOOLEAN, c \in BOOLEAN}
      [] op \in GitOps ->
            {Err("GitError", r, FALSE, FALSE) : r \in BOOLEAN}
      [] op \in DvcOps ->
            {Err("DVCError", r, FALSE, FALSE) : r \in BOOLEAN}
      [] op \in FileOps ->
            {Err("OSError", FALSE, FALSE, FALSE)}
      [] op = "validate_image_folder" ->
            {Err("Invalid", FALSE, FALSE, FALSE)}
      [] OTHER -> {}

(***************************************************************************)
(* Messages, by what they say.                                             *)
(***************************************************************************)
NoWho == [username |-> "", machine |-> "", since |-> 0]

Msg(t, op, n, e, who) ==
    [t |-> t, op |-> op, n |-> n, e |-> e, who |-> who]

NoMsg == Msg("none", "", 0, NoErr, NoWho)

\* "Cancelled by user."
CancelMsg == Msg("cancelled", "", 0, NoErr, NoWho)

\* str(exc) of the error raised by attempt n of op
ErrMsg(op, n, e) == Msg("error", op, n, e, NoWho)

\* "Dataset locked by {username} on {machine} since {since}."
LockedMsgAnonymous(l) ==
    Msg("locked", "", 0, NoErr,
        [username |-> "", machine |-> "", since |-> l.timestamp])

LockedMsg(l) ==
    Msg("locked", "", 0, NoErr,
        [username |-> l.username, machine |-> l.machine,
         since |-> l.timestamp])

\* "Could not acquire dataset lock."
NoLockMsg == Msg("no_lock", "", 0, NoErr, NoWho)

\* "Workspace has local changes. ..."
DirtyMsg == Msg("dirty", "", 0, NoErr, NoWho)

\* "Workspace is on a restored commit (detached HEAD). ..."
DetachedMsg == Msg("detached", "", 0, NoErr, NoWho)

\* the message of a successful run
OkMsg(text) == Msg("ok", text, 0, NoErr, NoWho)

NoResult == [set |-> FALSE, success |-> FALSE, msg |-> NoMsg]

Result(success, m) == [set |-> TRUE, success |-> success, msg |-> m]

(***************************************************************************)
(* Instructions.                                                           *)
(*   k     "emit"        _emit_progress(message, percent)                  *)
(*         "check"       _check_cancelled()                                *)
(*         "call"        one call of a client or file operation            *)
(*         "retry"       _run_network_op_with_retry(operation, label)      *)
(*         "status"      git.status() and the local-changes test of fetch  *)
(*         "branch"      git.current_branch() and the tests of publish     *)
(*         "commit"      git.commit() inside try / except GitError         *)
(*         "lock_check"  lock_manager.check() and is_stale()               *)
(*         "acquire"     lock_manager.acquire()                            *)
(*         "deliver"     history_loaded.emit(commits)                      *)
(*         "finish"      the successful outcome                            *)
(*   cb    the progress callback handed to the operation: "none";          *)
(*         "raw" the caller's callback itself; "checked" a callback that   *)
(*         runs _emit_progress; "final" a checked one that the operation   *)
(*         always invokes once more when it completes                      *)
(*   cond  the branch of the body the instruction is in                    *)
(*   guarded  inside try / except GitError with the non-fast-forward test  *)
(***************************************************************************)
Ins(k, op, cb, cond, guarded) ==
    [k |-> k, op |-> op, cb |-> cb, cond |-> cond, guarded |-> guarded]

Emit == Ins("emit", "progress", "none", "always", FALSE)

EmitIf(cond) == Ins("emit", "progress", "none", cond, FALSE)

Check == Ins("check", "cancel", "none", "always", FALSE)

CheckIf(cond) == Ins("check", "cancel", "none", cond, FALSE)

Call(op, cb) == Ins("call", op, cb, "always", FALSE)

CallIf(op, cb, cond) == Ins("call", op, cb, cond, FALSE)

Retry(op, cb) == Ins("retry", op, cb, "always", FALSE)

RetryIf(op, cb, cond) == Ins("retry", op, cb, cond, FALSE)

RetryGuarded(op) == Ins("retry", op, "none", "always", TRUE)

Finish(text) == Ins("finish", text, "none", "always", FALSE)

FinishIf(text, cond) == Ins("finish", text, "none", cond, FALSE)

\* DataGestCore.import_dataset (api.py:58-197) and ImportWorkflow.execute
\* (import_workflow.py:37-170).  The two differ in the callback handed to
\* dvc.pull (api.py:97, import_workflow.py:73).
ImportProgram(v) ==
    << Emit,
       Call("init_workspace", "none"),
       Emit,
       Call("validate_image_folder", "none"),
       Emit,
       Ins("lock_check", "lock_check", "none", "always", FALSE),
       Ins("acquire", "lock_acquire", "none", "always", FALSE),
       Emit,
       Retry("git_pull", "none"),
       Check,
       Retry("dvc_pull", IF v = "core" THEN "raw" ELSE "checked"),
       Check,
       Call("mkdir", "none"),
       EmitIf("if_replace"),
       CallIf("clear_folder", "none", "if_replace"),
       Emit,
       Call("copy_files", "final"),
       Check,
       Call("write_metadata", "none"),
       Emit,
       Call("dvc_add", "checked"),
       Check,
       Emit,
       Call("git_add", "none"),
       Ins("commit", "git_commit", "none", "always", FALSE),
       EmitIf("if_changes"),
       RetryIf("dvc_push", "checked", "if_changes"),
       CheckIf("if_changes"),
       EmitIf("if_changes"),
       RetryIf("git_push", "none", "if_changes"),
       EmitIf("if_no_changes"),
       Emit,
       Finish("imported") >>

\* DataGestCore.fetch (api.py:215-253), FetchLatestWorkflow.execute
\* (sync_workflow.py:17-47)
FetchProgram(v) ==
    << Emit,
       Call("init_workspace", "none"),
       Check,
       Ins("status", "git_status", "none", "always", FALSE),
       Emit,
       Retry("git_pull", "none"),
       Check,
       Emit,
       Retry("dvc_pull", "checked"),
       Check,
       Emit,
       Call("dvc_checkout", "checked"),
       Call("git_current_branch", "none"),
       Emit,
       Finish("synced") >>

\* DataGestCore.publish (api.py:270-361), PublishWorkflow.execute
\* (sync_workflow.py:76-153)
PublishProgram(v) ==
    << Emit,
       Call("init_workspace", "none"),
       Check,
       Ins("branch", "git_current_branch", "none", "always", FALSE),
       EmitIf("if_not_main"),
       CallIf("git_checkout", "none", "if_not_main"),
       CheckIf("if_not_main"),
       EmitIf("if_scoped"),
       CallIf("dvc_add", "checked", "if_scoped"),
       Emit,
       Call("git_add", "none"),
       Check,
       Emit,
       Ins("commit", "git_commit", "none", "always", FALSE),
       EmitIf("if_no_changes"),
       FinishIf("no_local_change", "if_no_changes"),
       Emit,
       Retry("git_pull", "none"),
       Check,
       Emit,
       Retry("dvc_push", "checked"),
       Check,
       Emit,
       RetryGuarded("git_push"),
       EmitIf("if_recovering"),
       RetryIf("git_pull", "none", "if_recovering"),
       RetryIf("git_push", "none", "if_recovering"),
       Emit,
       Finish("published") >>

\* DataGestCore.load_history (api.py:378-390), LoadHistoryWorkflow.execute
\* (history_workflow.py:72-86); only the workflow emits history_loaded.
HistoryProgram(v) ==
    << Emit,
       Call("init_workspace", "none"),
       Check,
       Emit,
       Call("git_log", "none"),
       Check,
       Emit,
       Call("populate_image_deltas", "none") >>
    \o (IF v = "workflow"
           THEN << Ins("deliver", "history_loaded", "none", "always", FALSE) >>
           ELSE << >>)
    \o << Emit,
          Finish("loaded") >>

RestoreProgramContentFirst(v) ==
    << Emit,
       Call("init_workspace", "none"),
       Check,
       Emit,
       Call("dvc_checkout", "checked"),
       Check,
       Emit,
       Call("git_checkout", "none"),
       Check,
       Emit,
       Finish("restored") >>

\* DataGestCore.restore (api.py:405-421), RestoreVersionWorkflow.execute
\* (history_workflow.py:107-121)
RestoreProgram(v) ==
    << Emit,
       Call("init_workspace", "none"),
       Check,
       Emit,
       Call("git_checkout", "none"),
       Check,
       Emit,
       Call("dvc_checkout", "checked"),
       Check,
       Emit,
       Finish("restored") >>

\* DataGestCore.return_to_latest (api.py:435-471),
\* ReturnToLatestWorkflow.execute (history_workflow.py:136-164)
ReturnToLatestProgram(v) ==
    << Emit,
       Call("init_workspace", "none"),
       Check,
       Emit,
       Call("git_checkout", "none"),
       Check,
       Emit,
       Retry("git_pull", "none"),
       Check,
       Emit,
       Retry("dvc_pull", "checked"),
       Check,
       Emit,
       Call("dvc_checkout", "checked"),
       Check,
       Emit,
       Finish("returned") >>

ProgramOf(r) ==
    CASE r.kind = "import" -> ImportProgram(r.variant)
      [] r.kind = "fetch" -> FetchProgram(r.variant)
      [] r.kind = "publish" -> PublishProgram(r.variant)
      [] r.kind = "load_history" -> HistoryProgram(r.variant)
      [] r.kind = "restore" -> RestoreProgram(r.variant)
      [] r.kind = "return_to_latest" -> ReturnToLatestProgram(r.variant)
      [] OTHER -> << >>

Program == ProgramOf(run)

(***************************************************************************)
(* The frame of a run and the ways an instruction ends.                    *)
(***************************************************************************)
NoRun ==
    [kind |-> "none", variant |-> "core", allow_dirty |-> FALSE,
     replace_dataset |-> FALSE, scoped |-> FALSE, lock_manager |-> TRUE]

\* The runs: every workflow in both variants, with the options it takes.
Runs ==
    {[kind |-> k, variant |-> v, allow_dirty |-> a, replace_dataset |-> r,
      scoped |-> s, lock_manager |-> l] :
        k \in Kinds, v \in Variants, a \in BOOLEAN, r \in BOOLEAN,
        s \in BOOLEAN, l \in BOOLEAN}

\* A run takes only the options of its workflow; only DataGestCore can be
\* built without a lock manager (lock_manager: LockManager | None = None),
\* and only its import looks at it.
RunsTaken ==
    {r \in Runs : /\ r.allow_dirty => r.kind = "fetch"
                  /\ r.replace_dataset => r.kind = "import"
                  /\ r.scoped => r.kind = "publish"
                  /\ ~r.lock_manager
                        => r.kind = "import" /\ r.variant = "core"}

NoLast == [at |-> 0, op |-> "", n |-> 0, e |-> NoErr]

InitFrame ==
    [pc |-> 1, phase |-> "run", attempt |-> 0, lock_acquired |-> FALSE,
     has_changes |-> TRUE, on_main |-> TRUE, recovering |-> FALSE,
     log |-> << >>, tries |-> 0, fails |-> 0, last |-> NoLast,
     errors |-> 0, result |-> NoResult, seen |-> FALSE,
     pre |-> FALSE, retried |-> 0, releases |-> 0, delivered |-> FALSE,
     dirty |-> FALSE, head |-> "", escaped |-> FALSE, checked |-> FALSE,
     raised |-> NoErr, between |-> FALSE, reported |-> FALSE]

\* The condition of a branch of the body, in frame w.
HoldsChangesAlways(cond, w) ==
    CASE cond = "if_replace" -> run.replace_dataset
      [] cond = "if_scoped" -> run.scoped
      [] cond = "if_not_main" -> ~w.on_main
      [] cond = "if_changes" -> TRUE
      [] cond = "if_no_changes" -> ~w.has_changes
      [] cond = "if_recovering" -> w.recovering
      [] OTHER -> TRUE

Holds(cond, w) ==
    CASE cond = "if_replace" -> run.replace_dataset
      [] cond = "if_scoped" -> run.scoped
      [] cond = "if_not_main" -> ~w.on_main
      [] cond = "if_changes" -> w.has_changes
      [] cond = "if_no_changes" -> ~w.has_changes
      [] cond = "if_recovering" -> w.recovering
      [] OTHER -> TRUE

\* The first instruction from j on that is in a branch taken.
RECURSIVE FirstFrom(_, _)
FirstFrom(j, w) ==
    IF j > Len(Program) THEN 0
    ELSE IF Holds(Program[j].cond, w) THEN j
    ELSE FirstFrom(j + 1, w)

\* The instruction completed: go on with the next one.
Advance(w) ==
    [w EXCEPT !.pc = FirstFrom(w.pc + 1, w), !.phase = "run", !.attempt = 0]

\* The call is recorded.
Logged(w, op) ==
    [w EXCEPT !.log = Append(@, [op |-> op, at |-> w.pc]), !.checked = FALSE]

\* _check_cancelled() returned.
Passed(w) == [w EXCEPT !.checked = TRUE]

\* except WorkflowCancelled / CoreCancelled: (False, "Cancelled by user.")
CancelledAsFailure(w) ==
    [w EXCEPT !.pc = 0, !.phase = "finally", !.attempt = 0, !.seen = TRUE,
              !.errors = @ + 1, !.result = Result(FALSE, CancelMsg)]

Cancelled(w) ==
    [w EXCEPT !.pc = 0, !.phase = "finally", !.attempt = 0, !.seen = TRUE,
              !.result = Result(FALSE, CancelMsg)]

FailedGoesOn(w, m) == [Advance(w) EXCEPT !.errors = @ + 1]

\* except Exception: the error callback, then (False, str(exc))
Failed(w, m) ==
    [w EXCEPT !.pc = 0, !.phase = "finally", !.attempt = 0,
              !.errors = @ + 1, !.result = Result(FALSE, m)]

CallRaisedRetried(w, op, e) ==
    IF IsRetryableNetworkError(e) /\ w.raised = NoErr
       THEN [w EXCEPT !.phase = "run", !.raised = e]
       ELSE [Failed(w, ErrMsg(op, 1, e)) EXCEPT !.raised = e]

\* A call made outside _run_network_op_with_retry raised e: the exception
\* reaches the except clause of the run.
CallRaised(w, op, e) == [Failed(w, ErrMsg(op, 1, e)) EXCEPT !.raised = e]

Cur == Program[wf.pc]

\* import_dataset: if self.lock_manager is None
LockManagerMissing ==
    run.kind = "import" /\ run.variant = "core" /\ ~run.lock_manager

At(k) == wf.phase = "run" /\ wf.pc > 0 /\ Cur.k = k /\ ~LockManagerMissing

\* finally: if lock_acquired
MustReleaseOnSuccess(w) == w.lock_acquired /\ w.result.success

MustRelease(w) == w.lock_acquired

(***************************************************************************)
(* Steps of a run.                                                         *)
(***************************************************************************)
\* _check_cancelled() raises: the flag is set
CheckRaisesNever == FALSE

CheckRaises == cancelled

\* _emit_progress() raises: it runs _check_cancelled() first
EmitRaisesNever == FALSE

EmitRaises == CheckRaises

\* A retried step of frame w is between two attempts: an attempt raised a
\* retryable error and was not the last; the retry notice or the sleep
\* comes next, then the top of the loop.
BetweenAttempts(w) ==
    /\ w.pc > 0
    /\ Program[w.pc].k = "retry"
    /\ w.phase = "notice" \/ (w.phase = "run" /\ w.attempt >= 2)

\* cancel() / cancel_cb() starts returning True
WfCancel ==
    /\ ~cancelled
    /\ wf.phase # "done"
    /\ cancelled' = TRUE
    /\ wf' = [wf EXCEPT !.pre = (wf.phase = "run" /\ wf.pc = 1),
                         !.between = BetweenAttempts(wf)]
    /\ UNCHANGED <<run, lockVars, otherVars>>

\* DataGestCore.import_dataset without a lock manager: raise RuntimeError(
\* "Import operation requires a lock manager."), before the try statement
WfRequireLockManager ==
    /\ wf.phase = "run" /\ wf.pc = 1
    /\ LockManagerMissing
    /\ wf' = [wf EXCEPT !.pc = 0, !.phase = "done", !.escaped = TRUE]
    /\ UNCHANGED <<run, cancelled, lockVars, otherVars>>

\* _emit_progress: the cancel check, then the progress callback
WfEmit ==
    /\ At("emit")
    /\ wf' = IF EmitRaises THEN Cancelled(wf) ELSE Advance(Passed(wf))
    /\ UNCHANGED <<run, cancelled, lockVars, otherVars>>

WfCheck ==
    /\ At("check")
    /\ wf' = IF CheckRaises THEN Cancelled(wf) ELSE Advance(Passed(wf))
    /\ UNCHANGED <<run, cancelled, lockVars, otherVars>>

\* A call without progress callback: it returns or raises.
WfCall ==
    /\ At("call")
    /\ Cur.cb = "none"
    /\ \E e \in {NoErr} \cup ErrorsOf(Cur.op) :
          wf' = IF e = NoErr
                   THEN Advance(Logged(wf, Cur.op))
                   ELSE CallRaised(Logged(wf, Cur.op), Cur.op, e)
    /\ UNCHANGED <<run, cancelled, lockVars, otherVars>>

\* A call with a progress callback starts ...
WfCallBegin ==
    /\ At("call")
    /\ Cur.cb # "none"
    /\ wf' = [Logged(wf, Cur.op) EXCEPT !.phase = "inop"]
    /\ UNCHANGED <<run, cancelled, lockVars, otherVars>>

\* The callback of a running operation raised the cancellation: the
\* operation is terminated and the exception propagates
\* (dvc_manager.py:137-145, file_utils.py:61-66).
CallbackCancels(cb) == EmitRaises /\ cb \in {"checked", "final"}

\* The callback raised the cancellation out of the operation.
Abandoned(w) == [Cancelled(w) EXCEPT !.reported = TRUE]

\* The operation reports progress while the flag is set, to a callback that
\* does not test it (the caller's progress_cb handed to dvc.pull as it is,
\* api.py:97): the report is delivered and the operation goes on.
WfProgress ==
    /\ wf.phase = "inop"
    /\ Cur.cb = "raw"
    /\ cancelled /\ ~wf.reported
    /\ wf' = [wf EXCEPT !.reported = TRUE]
    /\ UNCHANGED <<run, cancelled, lockVars, otherVars>>

\* ... and ends: it returns, raises, or its callback raises the cancellation.
WfCallEnd ==
    /\ wf.phase = "inop"
    /\ Cur.k = "call"
    /\ \/ /\ CallbackCancels(Cur.cb)
          /\ wf' = Abandoned(wf)
       \/ /\ ~(Cur.cb = "final" /\ cancelled)
          /\ wf' = Advance(wf)
       \/ \E e \in ErrorsOf(Cur.op) :
             wf' = CallRaised(wf, Cur.op, e)
    /\ UNCHANGED <<run, cancelled, lockVars, otherVars>>

\* if not status.clean and not self.allow_dirty: raise RuntimeError(...)
RefusesDirtyNever(clean, allow_dirty) == FALSE

RefusesDirty(clean, allow_dirty) == ~clean /\ ~allow_dirty

\* fetch: status = git.status(); if not status.clean and not allow_dirty
WfStatus ==
    /\ At("status")
    /\ \/ \E e \in ErrorsOf(Cur.op) :
             wf' = CallRaised(Logged(wf, Cur.op), Cur.op, e)
       \/ \E clean \in BOOLEAN :
             LET w == [Logged(wf, Cur.op) EXCEPT !.dirty = ~clean] IN
             wf' = IF RefusesDirty(clean, run.allow_dirty)
                      THEN Failed(w, DirtyMsg)
                      ELSE Advance(w)
    /\ UNCHANGED <<run, cancelled, lockVars, otherVars>>

\* if current_branch is None: raise RuntimeError("Detached HEAD ...")
IsDetachedNever(branch) == FALSE

IsDetached(branch) == branch = "none"

\* publish: current_branch = git.current_branch(); None is a detached HEAD
WfBranch ==
    /\ At("branch")
    /\ \/ \E e \in ErrorsOf(Cur.op) :
             wf' = CallRaised(Logged(wf, Cur.op), Cur.op, e)
       \/ \E branch \in {"none", "main", "other"} :
             LET w == [Logged(wf, Cur.op) EXCEPT !.head = branch] IN
             wf' = IF IsDetached(branch)
                      THEN Failed(w, DetachedMsg)
                      ELSE Advance([w EXCEPT
                                       !.on_main = (branch = "main")])
    /\ UNCHANGED <<run, cancelled, lockVars, otherVars>>

\* has_changes = True; try: git.commit(...) except GitError: "nothing to
\* commit" clears has_changes, anything else is raised again
WfCommit ==
    /\ At("commit")
    /\ \E e \in {NoErr} \cup ErrorsOf(Cur.op) :
          wf' = IF e = NoErr
                   THEN Advance([Logged(wf, Cur.op) EXCEPT
                                    !.has_changes = TRUE])
                ELSE IF e.cls = "GitError" /\ IsNothingToCommit(e)
                   THEN Advance([Logged(wf, Cur.op) EXCEPT
                                    !.has_changes = FALSE, !.raised = e])
                ELSE CallRaised(Logged(wf, Cur.op), Cur.op, e)
    /\ UNCHANGED <<run, cancelled, lockVars, otherVars>>

\* load_history (workflow): history_loaded.emit(self.commits)
WfDeliver ==
    /\ At("deliver")
    /\ wf' = Advance([wf EXCEPT !.delivered = TRUE, !.checked = FALSE])
    /\ UNCHANGED <<run, cancelled, lockVars, otherVars>>

\* import: existing = lock_manager.check(...); if existing and not
\* lock_manager.is_stale(existing): raise "Dataset locked by ..."
WfLockCheck ==
    /\ At("lock_check")
    /\ LET existing == ReadLockInfo(lockFile) IN
          wf' = IF existing # NoLock /\ ~IsStale(existing, now)
                   THEN Failed(Logged(wf, Cur.op), LockedMsg(existing))
                   ELSE Advance(Logged(wf, Cur.op))
    /\ UNCHANGED <<run, cancelled, lockVars, otherVars>>

\* import: lock_acquired = lock_manager.acquire(...) is called ...
WfAcquireCall ==
    /\ At("acquire")
    /\ AcquireEnter(Importer)
    /\ wf' = [Logged(wf, Cur.op) EXCEPT !.phase = "in_acquire"]
    /\ UNCHANGED <<run, cancelled, calls, otherVars>>

AcquireOutcomeIgnored(w, acquired) ==
    Advance([w EXCEPT !.lock_acquired = acquired])

\* lock_acquired = lock_manager.acquire(...); if not lock_acquired: raise
\* RuntimeError("Could not acquire dataset lock.")
AcquireOutcome(w, acquired) ==
    IF acquired
       THEN Advance([w EXCEPT !.lock_acquired = TRUE])
       ELSE Failed(w, NoLockMsg)

\* ... and returns
WfAcquireReturn ==
    /\ wf.phase = "in_acquire"
    /\ lm[Importer].pc = "idle"
    /\ wf' = AcquireOutcome(wf, lm[Importer].result = "true")
    /\ UNCHANGED <<run, cancelled, lockVars, otherVars>>

\* _run_network_op_with_retry, top of the loop: the cancel check, then the
\* operation is invoked
WfRetryBegin ==
    /\ At("retry")
    /\ wf' = IF CheckRaises
                THEN Cancelled(wf)
                ELSE IF wf.attempt = 0
                   THEN [Logged(wf, Cur.op) EXCEPT
                            !.phase = "inop", !.attempt = 1, !.tries = 1,
                            !.fails = 0]
                   ELSE [wf EXCEPT !.phase = "inop", !.tries = @ + 1,
                                   !.checked = FALSE]
    /\ UNCHANGED <<run, cancelled, lockVars, otherVars>>

\* The error leaves _run_network_op_with_retry.  publish wraps its first
\* git push in try / except GitError and goes on when the message is a
\* non-fast-forward one.
RaisedAlwaysRecovers(w, ins, e) ==
    IF e.cls = "GitError" /\ IsNonFastForwardError(e)
       THEN Advance([w EXCEPT !.recovering = TRUE])
       ELSE Failed(w, ErrMsg(ins.op, w.attempt, e))

RaisedSwallowed(w, ins, e) == Advance(w)

Raised(w, ins, e) ==
    IF ins.guarded /\ e.cls = "GitError" /\ IsNonFastForwardError(e)
       THEN Advance([w EXCEPT !.recovering = TRUE])
       ELSE Failed(w, ErrMsg(ins.op, w.attempt, e))

\* is_last = attempt >= attempts
IsLastLate(attempt) == attempt >= Attempts + 1

IsLast(attempt) == attempt >= Attempts

\* The invoked operation ends: it returns; its callback raises the
\* cancellation; or it raises an error, which is raised again when the
\* attempt is the last or the error is not retryable.
WfRetryEnd ==
    /\ wf.phase = "inop"
    /\ Cur.k = "retry"
    /\ \/ /\ CallbackCancels(Cur.cb)
          /\ wf' = Abandoned(wf)
       \/ wf' = Advance(wf)
       \/ \E e \in ErrorsOf(Cur.op) :
             LET w == [wf EXCEPT
                          !.fails = @ + 1,
                          !.last = [at |-> wf.pc, op |-> Cur.op,
                                    n |-> wf.attempt, e |-> e]]
             IN wf' = IF IsLast(wf.attempt) \/ ~IsRetryableNetworkError(e)
                         THEN Raised(w, Cur, e)
                         ELSE [w EXCEPT
                                 !.phase = "notice",
                                 !.retried = IF wf.attempt > @
                                                THEN wf.attempt ELSE @]
    /\ UNCHANGED <<run, cancelled, lockVars, otherVars>>

\* The retry notice was emitted: time.sleep(delay), then the next attempt
RetryNoticedAsError(w) ==
    [w EXCEPT !.phase = "run", !.attempt = @ + 1, !.errors = @ + 1]

RetryNoticed(w) == [w EXCEPT !.phase = "run", !.attempt = @ + 1]

\* After a retryable failure: _emit_progress(retry notice), time.sleep(delay)
WfRetryNotice ==
    /\ wf.phase = "notice"
    /\ wf' = IF EmitRaises THEN Cancelled(wf)
                ELSE RetryNoticed(Passed(wf))
    /\ UNCHANGED <<run, cancelled, lockVars, otherVars>>

\* The text of import's success message
ImportText(w) ==
    IF run.replace_dataset THEN "replaced"
    ELSE IF w.has_changes THEN "imported"
    ELSE "no_dataset_change"

\* The body ran to its end: (True, message)
WfFinish ==
    /\ At("finish")
    /\ wf' = [wf EXCEPT
                 !.pc = 0, !.phase = "finally",
                 !.result = Result(TRUE,
                                OkMsg(IF run.kind = "import"
                                         THEN ImportText(wf)
                                         ELSE Cur.op))]
    /\ UNCHANGED <<run, cancelled, lockVars, otherVars>>

\* finally: if lock_acquired: lock_manager.release(...) is called ...
WfFinally ==
    /\ wf.phase = "finally"
    /\ IF MustRelease(wf)
          THEN /\ ReleaseEnter(Importer)
               /\ wf' = [Logged(wf, "lock_release") EXCEPT
                            !.phase = "in_release", !.releases = @ + 1]
               /\ UNCHANGED <<run, cancelled, calls, otherVars>>
          ELSE /\ wf' = [wf EXCEPT !.phase = "done"]
               /\ UNCHANGED <<run, cancelled, lockVars, otherVars>>

\* ... and returns: the run is over
WfReleaseReturn ==
    /\ wf.phase = "in_release"
    /\ lm[Importer].pc = "idle"
    /\ wf' = [wf EXCEPT !.phase = "done"]
    /\ UNCHANGED <<run, cancelled, lockVars, otherVars>>

\* The steps of the importer's own acquire and release calls
WfLockStep ==
    \/ AcquireOpen(Importer)
    \/ AcquireWrite(Importer)
    \/ AcquireRead(Importer)
    \/ AcquireReread(Importer)
    \/ AcquireUnlink(Importer)
    \/ ReleaseCheck(Importer)
    \/ ReleaseUnlink(Importer)

\* The clock, while an import runs (the other workflows do not use the lock)
WfTick ==
    /\ run.kind = "import"
    /\ wf.phase # "done"
    /\ Tick

WfInit ==
    /\ LockInit
    /\ run \in RunsTaken
    /\ run.kind = "import" \/ lockFile = AbsentFile
    /\ wf = InitFrame
    /\ cancelled = FALSE
    /\ hist = NoHist /\ ui = NoUi /\ ws = NoWs /\ st = NoSt /\ imp = NoImp
    /\ pg = NoPg

WfNext ==
    \/ WfCancel
    \/ WfRequireLockManager
    \/ WfEmit
    \/ WfCheck
    \/ WfCall
    \/ WfCallBegin
    \/ WfCallEnd
    \/ WfProgress
    \/ WfStatus
    \/ WfBranch
    \/ WfCommit
    \/ WfDeliver
    \/ WfLockCheck
    \/ WfAcquireCall
    \/ WfAcquireReturn
    \/ WfRetryBegin
    \/ WfRetryEnd
    \/ WfRetryNotice
    \/ WfFinish
    \/ WfFinally
    \/ WfReleaseReturn
    \/ WfLockStep
    \/ WfTick

WfSpec == WfInit /\ [][WfNext]_vars

(***************************************************************************)
(* The lock protocol on its own: no workflow runs.                         *)
(***************************************************************************)
SpecInit ==
    /\ LockInit
    /\ run = NoRun
    /\ wf = InitFrame
    /\ cancelled = FALSE
    /\ hist = NoHist /\ ui = NoUi /\ ws = NoWs /\ st = NoSt /\ imp = NoImp
    /\ pg = NoPg

Spec == SpecInit /\ [][LockNext]_vars

(***************************************************************************)
(* Properties of the lock protocol                                         *)
(***************************************************************************)
\* The client's last call was an acquire that returned True.
Won(c) == lm[c].pc = "idle" /\ lm[c].op = "acquire" /\ lm[c].result = "true"

\* C1: while a lock record is fresh and was neither released nor
\* force-unlocked, no other acquire succeeds: at most one client has an
\* un-released successful acquire on a fresh lock.
C1_AtMostOneFreshHolder ==
    \A c, d \in Clients :
        (c # d /\ held[c] # NoLock /\ held[d] # NoLock)
            => (IsStale(held[c], now) \/ IsStale(held[d], now))

\* C2: of the acquire calls that race for one stale lock record (each read
\* it and judged it stale), at most one returns True, and the winner's
\* fresh record stays in place.
C2_StaleRaceOneWinner ==
    /\ \A c, d \in Clients :
           (c # d /\ Won(c) /\ Won(d) /\ judged[c] # NoLock)
               => judged[c] # judged[d]
    /\ \A c \in Clients :
           (Won(c) /\ judged[c] # NoLock /\ held[c] # NoLock
                   /\ ~IsStale(held[c], now))
               => ReadLockInfo(lockFile) = held[c]

\* C3: the unlink of an acquire call only ever removes the very record the
\* call read and judged stale; it never removes a fresh record.
C3_AcquireDeletesOnlyJudgedRecord ==
    [][\A c \in Clients :
          (lm[c].pc = "acq_unlink" /\ lockFile.state # "absent"
                                   /\ lockFile'.state = "absent")
              => /\ lockFile.state = "data"
                 /\ lockFile.info = lm[c].existing
                 /\ IsStale(lockFile.info, now)]_lockVars

\* C4: release by a client that is not the recorded holder (username or
\* machine differs) and is not in administrative mode returns False and
\* leaves the file unchanged; release by the recorded holder, or by a client
\* in administrative mode, deletes the record it read and returns True; a
\* release call removes the file in no other case.
C4_ReleaseOnlyHolderOrAdmin ==
    [][\A c \in Clients :
          LET e == ReadLockInfo(lockFile)
              foreign == \/ e.username # Username[c]
                         \/ e.machine # Machine[c]
          IN
          /\ (lm[c].pc = "rel_check" /\ lm'[c] # lm[c])
                => IF e # NoLock /\ ~AdminMode[c] /\ foreign
                      THEN /\ lm'[c].pc = "idle"
                           /\ lm'[c].result = "false"
                           /\ lockFile' = lockFile
                      ELSE /\ lm'[c].pc = "rel_unlink"
                           /\ lockFile' = lockFile
          /\ (lm[c].pc = "rel_unlink" /\ lm'[c] # lm[c]
                  /\ e # NoLock /\ e = lm[c].existing)
                => /\ AdminMode[c] \/ ~foreign
                   /\ lockFile'.state = "absent"
                   /\ lm'[c].pc = "idle"
                   /\ lm'[c].result = "true"
          /\ (lm[c].op = "release" /\ lm'[c] # lm[c] /\ lockFile' # lockFile)
                => /\ lm[c].pc = "rel_unlink"
                   /\ \/ lm[c].existing = NoLock
                      \/ AdminMode[c]
                      \/ /\ lm[c].existing.username = Username[c]
                         /\ lm[c].existing.machine = Machine[c]
      ]_lockVars

\* A non-holder's release was refused with the holder's record left in
\* place, after an administrator's release had removed an earlier lock.
C4_Witness ==
    /\ lm["c1"].op = "release" /\ lm["c1"].result = "false"
    /\ lm["c3"].op = "release" /\ lm["c3"].result = "true"
    /\ Won("c2") /\ calls = 3
    /\ lockFile.state = "data" /\ lockFile.info = held["c2"]

(***************************************************************************)
(* Properties of the workflows                                             *)
(***************************************************************************)
Done == wf.phase = "done"

\* The operations of the metadata client and of the content client.
ClientOps ==
    {"git_pull", "git_push", "git_add", "git_commit", "git_checkout",
     "git_status", "git_current_branch", "git_log", "populate_image_deltas",
     "dvc_pull", "dvc_push", "dvc_add", "dvc_checkout"}

\* The operations an import must not reach without the lock.
GuardedOps ==
    {"git_pull", "dvc_pull", "git_add", "dvc_add", "git_commit", "git_push",
     "dvc_push", "clear_folder", "copy_files"}

\* The operations run through _run_network_op_with_retry.
RetriedOps == {"git_pull", "git_push", "dvc_pull", "dvc_push"}

OpsOf(log) == {log[i].op : i \in 1..Len(log)}

\* C5: in a run of import (either variant) release is called only when
\* acquire returned True, at most once, and exactly once by the time the run
\* returns, whatever the exit path (success, nothing to commit, failure,
\* cancellation).
C5_ReleaseExactlyOnce ==
    /\ wf.releases <= 1
    /\ wf.releases = 1 => wf.lock_acquired
    /\ (Done /\ wf.lock_acquired) => wf.releases = 1

\* An import that took the lock was cancelled in its body and released the
\* lock before returning.
C5_Witness ==
    /\ Done /\ run.kind = "import" /\ wf.lock_acquired /\ wf.releases = 1
    /\ wf.result = Result(FALSE, CancelMsg)
    /\ "copy_files" \in OpsOf(wf.log)

\* C6: when import's lock phase finds a lock record that is not stale
\* (whoever holds it), the run fails with a message naming the holder's
\* username and machine, the error callback is invoked exactly once, and no
\* pull, add, commit, push, clear or copy is ever made in the run.
C6_LockedImportFailsFast ==
    [][/\ (At("lock_check") /\ wf' # wf
              /\ ReadLockInfo(lockFile) # NoLock
              /\ ~IsStale(ReadLockInfo(lockFile), now))
          => /\ wf'.result.set /\ ~wf'.result.success
             /\ wf'.result.msg.t = "locked"
             /\ wf'.result.msg.who.username = ReadLockInfo(lockFile).username
             /\ wf'.result.msg.who.machine = ReadLockInfo(lockFile).machine
             /\ wf'.errors = 1
             /\ OpsOf(wf'.log) \cap GuardedOps = {}
             /\ ~wf'.lock_acquired
       /\ wf.result.msg.t = "locked"
          => /\ wf'.result = wf.result
             /\ wf'.errors = wf.errors
             /\ wf'.log = wf.log
             /\ lm' = lm
      ]_vars

\* An import found the dataset locked, fresh, by a user on another machine.
C6_Witness ==
    /\ Done /\ wf.result.msg.t = "locked"
    /\ wf.result.msg.who.machine = "m2" /\ wf.result.msg.who.since = 1
    /\ wf.errors = 1 /\ Len(wf.log) = 3

\* C7: a run whose cancellation was requested before it started makes no
\* call at all (init_workspace, metadata client, content client, lock
\* manager), never invokes the error callback, and ends with success=False
\* and the message "Cancelled by user.".
C7_CancelBeforeStart ==
    wf.pre => /\ wf.log = << >>
              /\ wf.errors = 0
              /\ lm[Importer].op = "none"
              /\ wf.phase \in {"run", "finally", "done"}
              /\ wf.phase # "run" => wf.result = Result(FALSE, CancelMsg)
              /\ wf.phase = "run" => wf.pc = 1

\* An import cancelled before its start has returned.
C7_Witness ==
    /\ Done /\ wf.pre /\ run.kind = "import"
    /\ wf.result = Result(FALSE, CancelMsg)

\* C8: once a cancel check has observed the flag, the run makes no further
\* metadata-client or content-client call, its outcome is success=False with
\* the cancellation message, and the error callback is not invoked.
C8_CancelObservedStops ==
    [][/\ wf'.seen => /\ wf'.result = Result(FALSE, CancelMsg)
                      /\ wf'.errors = 0
       /\ wf.seen => /\ wf'.seen
                     /\ OpsOf(wf'.log) \cap ClientOps
                           = OpsOf(wf.log) \cap ClientOps
                     /\ Len(wf'.log) = Len(wf.log)
                           \/ /\ wf'.log = Append(wf.log,
                                      [op |-> "lock_release", at |-> 0])
                              /\ wf.lock_acquired
      ]_vars

\* A publish was cancelled from the progress callback of its content push.
C8_Witness ==
    /\ Done /\ wf.seen /\ ~wf.pre /\ run.kind = "publish"
    /\ wf.log[Len(wf.log)].op = "dvc_push"
    /\ wf.retried = 1

\* An attempt of a retried step has just failed.
RetryFailedStep ==
    /\ wf.phase = "inop" /\ wf.pc > 0 /\ Cur.k = "retry"
    /\ wf'.last # wf.last

\* C9 as stated: a retried step invokes its operation at most 3 times; an
\* error that is not transient is not retried; when the third attempt fails
\* with a transient error, that error is the run's failure message and the
\* error callback is invoked once.
C9_ThirdFailureEndsRun ==
    [][/\ wf'.tries <= Attempts
       /\ RetryFailedStep
          => /\ wf'.last.n = wf.tries
             /\ ~wf'.last.e.retryable
                => wf'.phase # "notice" /\ wf'.pc # wf.pc
             /\ (wf'.last.e.retryable /\ wf'.last.n = Attempts)
                => /\ wf'.result
                        = Result(FALSE, ErrMsg(Cur.op, Attempts, wf'.last.e))
                   /\ wf'.errors = 1
      ]_vars

\* C9 amended: as above, except that the first metadata push of publish,
\* when the error that leaves the retry is a metadata-client error whose
\* message also matches a non-fast-forward indicator, is followed by
\* publish's rebase-and-retry and not by the failure of the run.
C9_ThirdFailureEndsRunUnlessRemoteMoved ==
    [][/\ wf'.tries <= Attempts
       /\ RetryFailedStep
          => /\ wf'.last.n = wf.tries
             /\ ~wf'.last.e.retryable
                => wf'.phase # "notice" /\ wf'.pc # wf.pc
             /\ (wf'.last.e.retryable /\ wf'.last.n = Attempts)
                => IF /\ run.kind = "publish" /\ Cur.guarded
                      /\ wf'.last.e.cls = "GitError" /\ wf'.last.e.nff
                   THEN /\ wf'.recovering /\ ~wf'.result.set
                        /\ wf'.errors = 0
                   ELSE /\ wf'.result
                             = Result(FALSE,
                                      ErrMsg(Cur.op, Attempts, wf'.last.e))
                        /\ wf'.errors = 1
      ]_vars

\* A content pull failed three times with a transient error and the run
\* returned that failure.
C9_Witness ==
    /\ Done /\ wf.tries = Attempts /\ wf.errors = 1
    /\ wf.result.msg.t = "error" /\ wf.result.msg.op = "dvc_pull"
    /\ wf.result.msg.n = Attempts /\ wf.result.msg.e.retryable

\* An attempt of a retried step has just succeeded.
RetrySucceededStep ==
    /\ wf.phase = "inop" /\ wf.pc > 0 /\ Cur.k = "retry"
    /\ wf'.phase = "run" /\ wf'.pc # wf.pc /\ wf'.last = wf.last

\* C10: when the first k attempts (k = 1 or 2) of a retried step fail with
\* transient errors and the next one succeeds, the operation was invoked
\* k + 1 times, the run goes on with the instruction that follows the step,
\* the error callback is not invoked, and the run succeeds unless another
\* step fails or a cancellation is observed.
C10_RetriedStepSucceeds ==
    [][/\ (RetrySucceededStep /\ wf.fails \in 1..2)
          => /\ wf.tries = wf.fails + 1
             /\ wf'.pc = FirstFrom(wf.pc + 1, wf)
             /\ wf'.errors = 0
             /\ ~wf'.result.set
       /\ (wf'.phase = "done" /\ wf'.retried > 0)
          => \/ wf'.result.success /\ wf'.errors = 0
             \/ wf'.seen /\ wf'.errors = 0
             \/ /\ wf'.errors = 1 /\ wf'.result.msg.t # "cancelled"
                /\ ~wf'.result.success
                /\ wf'.result.msg.op \in RetriedOps
                      => \/ ~wf'.result.msg.e.retryable
                         \/ wf'.result.msg.n = Attempts
      ]_vars

\* A fetch whose content pull failed twice with a transient error and then
\* succeeded has returned success.
C10_Witness ==
    /\ Done /\ run.kind = "fetch" /\ wf.result.success /\ wf.errors = 0
    /\ wf.retried = 2 /\ wf.tries = 3 /\ wf.fails = 2
    /\ wf.last.op = "dvc_pull"

\* The place of publish's first metadata push in its body.
FirstPushAt == CHOOSE i \in DOMAIN Program : Program[i].guarded

\* The calls recorded after publish's first metadata push.
AfterFirstPush(log) == SelectSeq(log, LAMBDA x : x.at > FirstPushAt)

RebaseAndRetry ==
    << [op |-> "git_pull", at |-> FirstPushAt + 2],
       [op |-> "git_push", at |-> FirstPushAt + 3] >>

\* C11: in publish, a first metadata push rejected as non-fast-forward is
\* followed by one pull-with-rebase step and then one further push step
\* and by no other call; a run enters this rebase-and-retry only from its
\* first push and therefore at most once; when the second push is rejected
\* too, the run fails with that error and one error notification.
C11_OneRebaseAndRetry ==
    [][run.kind = "publish"
       => /\ wf.recovering => wf'.recovering
          /\ (~wf.recovering /\ wf'.recovering)
             => /\ wf.pc = FirstPushAt /\ wf'.last.at = FirstPushAt
                /\ wf'.last.e.nff /\ ~wf'.result.set
                /\ AfterFirstPush(wf'.log) = << >>
          /\ ~wf'.recovering => AfterFirstPush(wf'.log) = << >>
          /\ wf'.recovering
             => /\ AfterFirstPush(wf'.log)
                      \in {SubSeq(RebaseAndRetry, 1, n) : n \in 0..2}
                /\ (wf'.result.set /\ wf'.result.success)
                   => AfterFirstPush(wf'.log) = RebaseAndRetry
          /\ (RetryFailedStep /\ wf.recovering /\ Cur.op = "git_push"
                /\ wf'.last.e.cls = "GitError" /\ wf'.last.e.nff
                /\ (~wf'.last.e.retryable \/ wf'.last.n = Attempts))
             => /\ wf'.result
                     = Result(FALSE, ErrMsg("git_push", wf.attempt,
                                            wf'.last.e))
                /\ wf'.errors = 1
                /\ AfterFirstPush(wf'.log) = RebaseAndRetry
      ]_vars

\* A publish whose first push and whose push after the rebase were both
\* rejected as non-fast-forward has failed.
C11_Witness ==
    /\ Done /\ run.kind = "publish" /\ wf.recovering
    /\ ~wf.result.success /\ wf.errors = 1
    /\ wf.result.msg.t = "error" /\ wf.result.msg.op = "git_push"
    /\ wf.result.msg.e.nff
    /\ AfterFirstPush(wf.log) = RebaseAndRetry

\* The commit step of this run reported that there is nothing to commit.
NothingToCommit ==
    run.kind \in {"publish", "import"} /\ ~wf.has_changes

PushOps == {"dvc_push", "git_push"}

PublishWork ==
    {"git_checkout", "dvc_add", "git_add", "git_commit", "git_pull",
     "dvc_push", "git_push"}

\* C13: a publish whose branch query finds the mirror on no named branch
\* (detached HEAD) ends with success=False and the detached-HEAD message,
\* invokes the error callback exactly once, and makes no branch checkout,
\* content add, staging, commit, pull or push call.
C13_DetachedPublishFails ==
    (run.kind = "publish" /\ wf.head = "none")
    => /\ wf.result = Result(FALSE, DetachedMsg)
       /\ wf.errors = 1
       /\ OpsOf(wf.log) \cap PublishWork = {}
       /\ wf.log[Len(wf.log)].op = "git_current_branch"
       /\ wf.phase \in {"finally", "done"}

\* A publish on a detached mirror has returned.
C13_Witness ==
    /\ Done /\ run.kind = "publish" /\ wf.head = "none"
    /\ wf.result = Result(FALSE, DetachedMsg) /\ wf.errors = 1

\* The calls of fetch that follow its local-changes test.
FetchWork == {"git_pull", "dvc_pull", "dvc_checkout"}

FetchCalls ==
    << "init_workspace", "git_status", "git_pull", "dvc_pull",
       "dvc_checkout", "git_current_branch" >>

\* C14: a fetch that finds uncommitted local changes without the override
\* flag ends with success=False, the local-changes message and one error
\* notification, and makes no metadata pull, content pull or content
\* checkout; with the override flag the same finding is no failure, and a
\* run that then succeeds has made the metadata pull, the content pull and
\* the content checkout, once each and in this order.
C14_DirtyFetchNeedsOverride ==
    (run.kind = "fetch" /\ wf.dirty)
    => IF ~run.allow_dirty
          THEN /\ wf.result = Result(FALSE, DirtyMsg)
               /\ wf.errors = 1
               /\ OpsOf(wf.log) \cap FetchWork = {}
               /\ wf.phase \in {"finally", "done"}
          ELSE /\ wf.result.msg # DirtyMsg
               /\ wf.result.set /\ wf.result.success
                  => /\ [i \in 1..Len(wf.log) |-> wf.log[i].op] = FetchCalls
                     /\ wf.errors = 0

\* A fetch with the override flag on a mirror with local changes has
\* returned success.
C14_Witness ==
    /\ Done /\ run.kind = "fetch" /\ wf.dirty /\ run.allow_dirty
    /\ wf.result.success /\ wf.errors = 0
    /\ OpsOf(wf.log) \cap FetchWork = FetchWork

\* A fetch without the override flag on a mirror with local changes has
\* returned its failure.
C14_WitnessRefused ==
    /\ Done /\ run.kind = "fetch" /\ wf.dirty /\ ~run.allow_dirty
    /\ wf.result = Result(FALSE, DirtyMsg)

(***************************************************************************)
(* HistSpec -- the image deltas of one commit of a loaded history          *)
(* (LoadHistoryWorkflow._populate_image_deltas, DataGestCore likewise).    *)
(* The commit's data.dvc as "git show" answers for the commit and for its  *)
(* first parent, and the answer of "git rev-list --parents", are drawn     *)
(* from bounded sets; every helper call of the loop body is one step.      *)
(***************************************************************************)
\* The largest file count written in a data.dvc.
MaxFiles == 2

\* _dvc_nfiles returns None
NoCount == -1

\* The lines of a data.dvc: "nfiles: <digits>", "nfiles: <no digits>", and
\* a line of another key.
DvcLines ==
    {[key |-> "nfiles", digits |-> TRUE, n |-> k] : k \in 0..MaxFiles}
    \cup {[key |-> "nfiles", digits |-> FALSE, n |-> 0],
          [key |-> "path", digits |-> FALSE, n |-> 0]}

\* The texts "git show <commit>:<data.dvc>" prints: empty, one line, two.
DvcTexts ==
    {<< >>} \cup {<<l>> : l \in DvcLines}
            \cup {<<l, m>> : l \in DvcLines, m \in DvcLines}

\* What git.run(["show", ...]) does: it raises, or returns a text.
ShowAnswers ==
    {[err |-> TRUE, lines |-> << >>]}
    \cup {[err |-> FALSE, lines |-> t] : t \in DvcTexts}

\* What "git rev-list --parents -n 1" does: it raises ("failed"), prints
\* the commit alone ("root"), or the commit and its parents ("parent").
ParentAnswers == {"failed", "root", "parent"}

NoneText == [some |-> FALSE, lines |-> << >>]

\* _git_show_file: the text, or None when git raises
GitShowFile(answer) ==
    IF answer.err THEN NoneText ELSE [some |-> TRUE, lines |-> answer.lines]

\* re.search(r"^\s*nfiles:\s*(\d+)\s*$", text, re.MULTILINE) matches a line
LineMatches(l) == l.key = "nfiles" /\ l.digits

\* _dvc_nfiles: None without text or without a matching line, otherwise
\* the number of the first matching line
DvcNfiles(text) ==
    IF ~text.some \/ text.lines = << >> THEN NoCount
    ELSE IF \A i \in 1..Len(text.lines) : ~LineMatches(text.lines[i])
       THEN NoCount
    ELSE LET i == CHOOSE i \in 1..Len(text.lines) :
                     /\ LineMatches(text.lines[i])
                     /\ \A j \in 1..(i - 1) : ~LineMatches(text.lines[j])
         IN text.lines[i].n

\* _first_parent: parts[1] if len(parts) > 1 else None; None when git raises
FirstParent(answer) == answer = "parent"

\* current_nfiles or 0
OrZeroKeepsNone(n) == n

OrZero(n) == IF n = NoCount \/ n = 0 THEN 0 ELSE n

Max(a, b) == IF a >= b THEN a ELSE b

HistInit ==
    /\ now = StartTime /\ lockFile = AbsentFile
    /\ lm = [c \in Clients |-> IdleFrame("none", "none")]
    /\ calls = 0
    /\ held = [c \in Clients |-> NoLock]
    /\ judged = [c \in Clients |-> NoLock]
    /\ run = NoRun /\ wf = InitFrame /\ cancelled = FALSE
    /\ ui = NoUi /\ ws = NoWs /\ st = NoSt /\ imp = NoImp
    /\ pg = NoPg
    /\ \E c \in ShowAnswers, a \in ParentAnswers, p \in ShowAnswers :
          /\ a # "parent" => p = [err |-> TRUE, lines |-> << >>]
          /\ hist = [phase |-> "current", show |-> c, parents |-> a,
                     parent_show |-> p, current_nfiles |-> NoCount,
                     parent_hash |-> FALSE, previous_nfiles |-> NoCount,
                     images_added |-> 0, images_removed |-> 0]

\* current_nfiles = self._dvc_nfiles(self._git_show_file(commit.hash, ...))
HistCurrent ==
    /\ hist.phase = "current"
    /\ hist' = [hist EXCEPT
                   !.phase = "parent",
                   !.current_nfiles = DvcNfiles(GitShowFile(hist.show))]
    /\ UNCHANGED <<lockVars, wfVars, ui, ws, st, imp, pg>>

\* parent_hash = self._first_parent(commit.hash)
HistParent ==
    /\ hist.phase = "parent"
    /\ hist' = [hist EXCEPT
                   !.phase = "previous",
                   !.parent_hash = FirstParent(hist.parents)]
    /\ UNCHANGED <<lockVars, wfVars, ui, ws, st, imp, pg>>

\* previous_nfiles = _dvc_nfiles(_git_show_file(parent_hash, ...))
\*                   if parent_hash else 0
HistPrevious ==
    /\ hist.phase = "previous"
    /\ hist' = [hist EXCEPT
                   !.phase = "delta",
                   !.previous_nfiles =
                       IF hist.parent_hash
                          THEN DvcNfiles(GitShowFile(hist.parent_show))
                          ELSE 0]
    /\ UNCHANGED <<lockVars, wfVars, ui, ws, st, imp, pg>>

\* Both None: 0 and 0; otherwise delta = current - previous,
\* images_added = max(delta, 0), images_removed = max(-delta, 0)
HistDelta ==
    /\ hist.phase = "delta"
    /\ hist' =
          IF hist.current_nfiles = NoCount /\ hist.previous_nfiles = NoCount
             THEN [hist EXCEPT !.phase = "done", !.images_added = 0,
                               !.images_removed = 0]
             ELSE LET current == OrZero(hist.current_nfiles)
                      previous == OrZero(hist.previous_nfiles)
                      delta == current - previous
                  IN [hist EXCEPT !.phase = "done",
                                  !.images_added = Max(delta, 0),
                                  !.images_removed = Max(-delta, 0)]
    /\ UNCHANGED <<lockVars, wfVars, ui, ws, st, imp, pg>>

HistNext ==
    \/ HistCurrent
    \/ HistParent
    \/ HistPrevious
    \/ HistDelta

HistSpec == HistInit /\ [][HistNext]_vars

\* The file-count marker a data.dvc records: the number of its first
\* "nfiles: <digits>" line; 0 when git cannot show the file or the file
\* has no such line.
Marker(answer) ==
    LET hits == {i \in 1..Len(answer.lines) :
                    answer.lines[i].key = "nfiles" /\ answer.lines[i].digits}
    IN IF answer.err \/ hits = {} THEN 0
       ELSE answer.lines[CHOOSE i \in hits : \A j \in hits : i <= j].n

\* The marker at the first parent: 0 for a root commit and when the parent
\* cannot be told.
ParentMarker ==
    IF hist.parents = "parent" THEN Marker(hist.parent_show) ELSE 0

\* C15: for a commit of a loaded history, with c the file-count marker at
\* the commit (0 when unreadable) and p the marker at its first parent (0
\* for a root commit or when unreadable), images_added = max(c - p, 0) and
\* images_removed = max(p - c, 0); both are non-negative and at most one is
\* non-zero; the computation ends with these values for every answer of
\* git, the failing ones included.
C15_ImageDeltas ==
    /\ hist.phase \in {"current", "parent", "previous", "delta", "done"}
    /\ hist.phase = "done"
       => LET c == Marker(hist.show)
              p == ParentMarker
          IN /\ hist.images_added = Max(c - p, 0)
             /\ hist.images_removed = Max(p - c, 0)
             /\ hist.images_added >= 0 /\ hist.images_removed >= 0
             /\ hist.images_added = 0 \/ hist.images_removed = 0

\* The data.dvc of the commit cannot be shown and its parent records two
\* files: two images removed.
C15_Witness ==
    /\ hist.phase = "done" /\ hist.show.err /\ hist.parents = "parent"
    /\ Marker(hist.parent_show) = MaxFiles
    /\ hist.images_added = 0 /\ hist.images_removed = MaxFiles

(***************************************************************************)
(* UiSpec -- the main window starts workflows on a worker thread           *)
(* (ui/app.py: MainWindow._run_workflow, on_history_requested,             *)
(* _clear_running_workflow; CoreTaskRunner.execute).                       *)
(***************************************************************************)
\* The largest number of start requests of a behaviour.
MaxRequests == 4

\* The handlers that start their task through _run_workflow alone.
ButtonKinds == Kinds \ {"load_history"}

NoRequest == [kind |-> "none", outcome |-> "none"]

UiInit ==
    /\ now = StartTime /\ lockFile = AbsentFile
    /\ lm = [c \in Clients |-> IdleFrame("none", "none")]
    /\ calls = 0
    /\ held = [c \in Clients |-> NoLock]
    /\ judged = [c \in Clients |-> NoLock]
    /\ run = NoRun /\ wf = InitFrame /\ cancelled = FALSE
    /\ hist = NoHist /\ ws = NoWs /\ st = NoSt /\ imp = NoImp
    /\ pg = NoPg
    /\ ui = [phase |-> "window",
             thread |-> "none",     \* _workflow_thread: none, running, quitting
             task |-> "none",       \* the workflow of _workflow
             active |-> 0,          \* tasks inside CoreTaskRunner.execute
             requests |-> 0,        \* start requests made so far
             started |-> 0,         \* threads started so far
             busy |-> 0,            \* "Busy" warnings shown so far
             last |-> NoRequest]    \* the last request and what became of it

\* _run_workflow: the Busy warning when a thread is set, otherwise a new
\* thread that executes the task.
RunWorkflow(u, k) ==
    IF u.thread # "none"
       THEN [u EXCEPT !.busy = @ + 1,
                      !.last = [kind |-> k, outcome |-> "busy"]]
       ELSE [u EXCEPT !.thread = "running", !.task = k, !.active = @ + 1,
                      !.started = @ + 1,
                      !.last = [kind |-> k, outcome |-> "started"]]

\* on_import_requested, on_publish_requested, on_fetch_requested,
\* on_restore_requested, on_return_to_latest_requested
UiRunWorkflow(k) ==
    /\ ui.requests < MaxRequests
    /\ ui' = RunWorkflow([ui EXCEPT !.requests = @ + 1], k)
    /\ UNCHANGED <<lockVars, wfVars, hist, ws, st, imp, pg>>

\* on_history_requested (a dataset was selected, the history tab was
\* opened): if self._workflow_thread is not None: return
UiHistoryRequested ==
    /\ ui.requests < MaxRequests
    /\ LET u == [ui EXCEPT !.requests = @ + 1] IN
       ui' = IF u.thread # "none"
                THEN [u EXCEPT !.last = [kind |-> "load_history",
                                         outcome |-> "dropped"]]
                ELSE RunWorkflow(u, "load_history")
    /\ UNCHANGED <<lockVars, wfVars, hist, ws, st, imp, pg>>

\* CoreTaskRunner.execute returns: finished is emitted and on_finished
\* asks the thread to quit.
UiTaskFinished ==
    /\ ui.thread = "running"
    /\ ui' = [ui EXCEPT !.thread = "quitting", !.active = @ - 1]
    /\ UNCHANGED <<lockVars, wfVars, hist, ws, st, imp, pg>>

\* thread.finished: _clear_running_workflow
UiClearRunningWorkflow ==
    /\ ui.thread = "quitting"
    /\ ui' = [ui EXCEPT !.thread = "none", !.task = "none"]
    /\ UNCHANGED <<lockVars, wfVars, hist, ws, st, imp, pg>>

UiNext ==
    \/ \E k \in ButtonKinds : UiRunWorkflow(k)
    \/ UiHistoryRequested
    \/ UiTaskFinished
    \/ UiClearRunningWorkflow

UiSpec == UiInit /\ [][UiNext]_vars

\* C16: at most one workflow executes at a time in one application
\* instance; a start request made while a workflow is executing starts
\* nothing, leaves nothing to be started later, and shows the busy warning.
C16_BusyRefusesSecondWorkflow ==
    [][/\ ui'.active <= 1
       /\ (ui'.requests # ui.requests /\ ui.active > 0)
          => /\ ui'.started = ui.started
             /\ ui'.task = ui.task /\ ui'.thread = ui.thread
             /\ ui'.busy = ui.busy + 1
      ]_vars

\* The part of C16 the window keeps: one workflow at a time, and a request
\* made while one executes starts nothing, now or later.
C16_OneWorkflowAtATime ==
    [][/\ ui'.active <= 1
       /\ ui'.started <= ui.started + 1
       /\ (ui'.requests # ui.requests /\ ui.active > 0)
          => /\ ui'.started = ui.started
             /\ ui'.task = ui.task /\ ui'.thread = ui.thread
       /\ ui'.started # ui.started
          => ui'.requests # ui.requests /\ ui'.last.outcome = "started"
      ]_vars

\* A history request made while a publish was executing was dropped
\* without a warning.
C16_DroppedSilently ==
    /\ ui.last = [kind |-> "load_history", outcome |-> "dropped"]
    /\ ui.task = "publish" /\ ui.active = 1 /\ ui.busy = 0

\* C20: every run ends with one final result and lets no exception escape
\* to its caller; the error callback is invoked exactly once when the run
\* ends in a failure that is not a cancellation, and never when it ends in
\* success or in cancellation.
C20_OneResultNoEscape ==
    /\ wf.errors <= 1
    /\ ~wf.escaped
    /\ Done
       => /\ wf.result.set
          /\ wf.result.success => wf.errors = 0
          /\ wf.result.msg = CancelMsg => wf.errors = 0 /\ ~wf.result.success
          /\ (~wf.result.success /\ wf.result.msg # CancelMsg)
             => wf.errors = 1

\* An import of a DataGestCore built without a lock manager has ended with
\* no result and no error notification.
C20_Escaped ==
    /\ Done /\ wf.escaped /\ ~wf.result.set /\ wf.errors = 0
    /\ wf.log = << >>

(***************************************************************************)
(* WsSpec -- one call of WorkspaceManager.init_workspace (core/workspace.py)*)
(* on a mirror that is absent, a directory without metadata, or a          *)
(* repository in some condition; the answers of the substrates are chosen  *)
(* at each step.                                                           *)
(***************************************************************************)
\* The largest number of fallback sources of a project.
MaxSources == 2

\* Remote texts of a project: a URL, a local path (drive or UNC), blank.
GitRemoteTexts == {"url", "share", ""}

\* _local_path_from_remote(remote) is not None
IsLocalPath(remote) == remote \in {"share", "share_store"}

\* _remote_path_accessible: a remote that is no local path counts as
\* accessible; a local path is accessible when it exists.
RemotePathAccessibleAlways(remote, share_ok) == TRUE

RemotePathAccessible(remote, share_ok) ==
    IF IsLocalPath(remote) THEN share_ok ELSE TRUE

\* _git_remote_candidates / _dvc_remote_candidates over the items from
\* position i on: blank items and items already taken are left out.
RECURSIVE CandidatesFrom(_, _, _)
CandidatesFrom(items, i, taken) ==
    IF i > Len(items) THEN taken
    ELSE IF items[i] = "" \/ \E j \in 1..Len(taken) : taken[j] = items[i]
       THEN CandidatesFrom(items, i + 1, taken)
    ELSE CandidatesFrom(items, i + 1, Append(taken, items[i]))

RemoteCandidates(primary, sources) ==
    CandidatesFrom(<<primary>> \o sources, 1, << >>)

GitRemoteCandidates(project) ==
    RemoteCandidates(project.git_remote, project.git_remote_sources)

DvcRemoteCandidates(project) ==
    RemoteCandidates(project.dvc_remote, project.dvc_remote_sources)

\* _select_dvc_remote: the first accessible candidate, else the first one
\* ("" stands for the RuntimeError raised without candidates)
SelectDvcRemote(project, share_ok) ==
    LET candidates == DvcRemoteCandidates(project)
        ok == {i \in 1..Len(candidates) :
                  RemotePathAccessible(candidates[i], share_ok)}
    IN IF candidates = << >> THEN ""
       ELSE IF ok = {} THEN candidates[1]
       ELSE candidates[CHOOSE i \in ok : \A j \in ok : i <= j]

\* The sequences over S of length n, and up to n.
RECURSIVE SeqsOfLen(_, _)
SeqsOfLen(S, n) ==
    IF n = 0 THEN {<< >>}
    ELSE {Append(q, x) : q \in SeqsOfLen(S, n - 1), x \in S}

SeqsUpTo(S, n) == UNION {SeqsOfLen(S, k) : k \in 0..n}

Projects ==
    {[git_remote |-> g, git_remote_sources |-> gs, dvc_remote |-> d.p,
      dvc_remote_sources |-> d.s] :
        g \in GitRemoteTexts, gs \in SeqsUpTo(GitRemoteTexts, MaxSources),
        d \in {[p |-> "", s |-> << >>], [p |-> "store", s |-> << >>],
               [p |-> "share_store", s |-> <<"store">>]}}

\* The mirror directory <root>/<project_id>:
\*   exists    the directory exists          git   it has a .git
\*   repo      how "git rev-parse --is-inside-work-tree" fares in it:
\*             "ok", "dubious" (ownership not trusted), "broken"
\*   dvc       it has a .dvc                 datasets  it has datasets/
\*   storage   the URL of the DVC remote "storage" ("" without it)
\*   default   the name of the default DVC remote ("" without one)
\*   commits   HEAD can be resolved
AbsentMirror ==
    [exists |-> FALSE, git |-> FALSE, repo |-> "none", dvc |-> FALSE,
     datasets |-> FALSE, storage |-> "", default |-> "", commits |-> FALSE]

\* A directory that is no repository.
PlainMirror == [AbsentMirror EXCEPT !.exists = TRUE]

\* What a repository holds: nothing yet; commits of another tool; a
\* DataGest repository; a .dvc that was never committed.
Repositories(conditions) ==
    {[exists |-> TRUE, git |-> TRUE, repo |-> c, dvc |-> k.dvc,
      datasets |-> k.datasets, storage |-> k.storage,
      default |-> k.default, commits |-> k.commits] :
        c \in conditions,
        k \in {[dvc |-> FALSE, datasets |-> FALSE, storage |-> "",
                default |-> "", commits |-> FALSE],
               [dvc |-> FALSE, datasets |-> FALSE, storage |-> "",
                default |-> "", commits |-> TRUE],
               [dvc |-> TRUE, datasets |-> TRUE, storage |-> "old_store",
                default |-> "storage", commits |-> TRUE],
               [dvc |-> TRUE, datasets |-> FALSE, storage |-> "",
                default |-> "", commits |-> FALSE]}}

Conditions == {"ok", "dubious", "broken"}

\* What "git clone" leaves behind when it succeeds: the remote's content,
\* without an uncommitted .dvc.
Cloned == {m \in Repositories(Conditions) : m.dvc => m.commits}

\* _backup_invalid_workspace: for attempt in range(100)
BackupAttempts == 100

\* A sibling directory <name>_corrupt_<stamp>[_NN]: name is the attempt
\* whose suffix it carries, content says whose files it holds.
BackupDir(name, content) == [name |-> name, content |-> content]

\* The backups with the stamp of this call that are there before it: none,
\* some, or one under every name the loop can form.
MaxEarlierBackups == 2

EarlierBackups ==
    {{BackupDir(i, "earlier") : i \in 0..(k - 1)} :
        k \in (0..MaxEarlierBackups) \cup {BackupAttempts}}

\* The attempts whose backup name does not exist.
FreeNames(dirs) ==
    {i \in 0..(BackupAttempts - 1) : \A b \in dirs : b.name # i}

FirstFreeNameIgnoringExisting(dirs) == 0

\* The first attempt at which backup.exists() is false.
FirstFreeName(dirs) ==
    CHOOSE i \in FreeNames(dirs) : \A j \in FreeNames(dirs) : i <= j

\* workspace.rename(backup): the target takes the content of the directory;
\* a directory of that name is replaced.
Renamed(dirs, name, content) ==
    {b \in dirs : b.name # name} \cup {BackupDir(name, content)}

WsInit ==
    /\ now = StartTime /\ lockFile = AbsentFile
    /\ lm = [c \in Clients |-> IdleFrame("none", "none")]
    /\ calls = 0
    /\ held = [c \in Clients |-> NoLock]
    /\ judged = [c \in Clients |-> NoLock]
    /\ run = NoRun /\ wf = InitFrame /\ cancelled = FALSE
    /\ hist = NoHist /\ ui = NoUi /\ st = NoSt /\ imp = NoImp
    /\ pg = NoPg
    /\ \E p \in Projects, s \in BOOLEAN,
          m \in {AbsentMirror, PlainMirror} \cup Repositories(Conditions),
          e \in EarlierBackups :
          ws = [phase |-> "init_workspace",
                files |-> IF m.exists THEN "original" ELSE "none",
                                      \* whose files the directory holds
                backup_dirs |-> e,    \* the <name>_corrupt_* siblings
                earlier |-> e,        \* history: those there at the start
                pc |-> "select_dvc",  \* the statement to run next
                round |-> 1,          \* validation: 1 first, 2 after the
                                      \* ownership retry, 3 after the reclone
                project |-> p,
                share_ok |-> s,       \* the local remote paths exist
                mirror |-> m,
                idx |-> 0,            \* _clone_with_fallback: loop position
                errors |-> << >>,     \* _clone_with_fallback: errors
                tried |-> << >>,      \* history: remotes git.clone was
                                      \* called with, in the running loop
                active_git_remote |-> "",
                active_dvc_remote |-> "",
                initialized_dvc |-> FALSE,
                backups |-> 0,        \* <name>_corrupt_* directories made
                recoveries |-> 0,     \* history: backups followed by a clone
                result |-> "none",    \* "true", or the error raised
                log |-> << >>]        \* history: the steps taken

\* The call raises.
WsRaise(w, why) == [w EXCEPT !.pc = "raised", !.result = why]

WsDid(w, step) == [w EXCEPT !.log = Append(@, step)]

\* self.active_dvc_remote = self._select_dvc_remote(project)
WsSelectDvcRemote ==
    /\ ws.pc = "select_dvc"
    /\ LET remote == SelectDvcRemote(ws.project, ws.share_ok)
           w == WsDid(ws, "select_dvc") IN
       ws' = IF remote = "" THEN WsRaise(w, "no_dvc_remote")
             ELSE [w EXCEPT !.pc = "inspect", !.active_dvc_remote = remote]
    /\ UNCHANGED <<lockVars, wfVars, hist, ui, st, imp, pg>>

\* if workspace.exists() and not (workspace / ".git").exists(): backup,
\* clone; elif not workspace.exists(): clone
WsInspect ==
    /\ ws.pc = "inspect"
    /\ ws' = IF ws.mirror.exists /\ ~ws.mirror.git
                THEN [ws EXCEPT !.pc = "backup"]
             ELSE IF ~ws.mirror.exists
                THEN [ws EXCEPT !.pc = "clone", !.idx = 1, !.errors = << >>,
                                !.tried = << >>]
             ELSE [ws EXCEPT !.pc = "bind"]
    /\ UNCHANGED <<lockVars, wfVars, hist, ui, st, imp, pg>>

\* _backup_invalid_workspace: the directory is renamed to the first
\* <name>_corrupt_<stamp>[_NN] name that does not exist; or the rename
\* fails, or none of the names is free, and RuntimeError is raised;
\* _clone_with_fallback follows.
WsBackupInvalidWorkspace ==
    /\ ws.pc = "backup"
    /\ LET w == WsDid(ws, "backup") IN
       \/ /\ FreeNames(ws.backup_dirs) # {}
          /\ ws' = [w EXCEPT !.pc = "clone", !.idx = 1, !.errors = << >>,
                             !.tried = << >>,
                             !.mirror = AbsentMirror, !.backups = @ + 1,
                             !.recoveries = @ + 1,
                             !.files = "none",
                             !.backup_dirs =
                                 Renamed(@, FirstFreeName(@), ws.files)]
       \/ ws' = WsRaise(w, "backup_failed")
    /\ UNCHANGED <<lockVars, wfVars, hist, ui, st, imp, pg>>

\* Where init_workspace goes on after _clone_with_fallback returned: in
\* the first round to _bind_workspace and the .git test, after the reclone
\* to _bind_workspace and _ensure_safe_directory.
AfterClone(w) ==
    IF w.round = 1 THEN [w EXCEPT !.pc = "bind"]
    ELSE [w EXCEPT !.pc = "trust"]

\* _clone_with_fallback, one candidate: a candidate whose local path is
\* not accessible is noted and left out; otherwise the directory is
\* removed if it exists and git.clone is called, which returns (the remote
\* is the result) or raises GitError (noted; a failed clone may leave a
\* directory behind).
WsCloneCandidate ==
    /\ ws.pc = "clone"
    /\ ws.idx <= Len(GitRemoteCandidates(ws.project))
    /\ LET remote == GitRemoteCandidates(ws.project)[ws.idx]
           w == WsDid(ws, "clone") IN
       IF ~RemotePathAccessible(remote, ws.share_ok)
          THEN ws' = [w EXCEPT
                         !.idx = @ + 1,
                         !.errors = Append(@, [remote |-> remote,
                                               why |-> "inaccessible"])]
          ELSE \/ \E m \in Cloned :
                     ws' = AfterClone([w EXCEPT
                                          !.tried = Append(@, remote),
                                          !.mirror = m,
                                          !.files = "cloned",
                                          !.active_git_remote = remote])
               \/ \E left \in {AbsentMirror, PlainMirror} :
                     ws' = [w EXCEPT
                               !.idx = @ + 1,
                               !.tried = Append(@, remote),
                               !.mirror = left,
                               !.files = IF left.exists THEN "partial"
                                                        ELSE "none",
                               !.errors = Append(@, [remote |-> remote,
                                                     why |-> "git_error"])]
    /\ UNCHANGED <<lockVars, wfVars, hist, ui, st, imp, pg>>

\* _clone_with_fallback, after the loop (or without candidates):
\* RuntimeError with the errors noted
WsCloneExhausted ==
    /\ ws.pc = "clone"
    /\ ws.idx > Len(GitRemoteCandidates(ws.project))
    /\ ws' = WsRaise(WsDid(ws, "clone"),
                     IF GitRemoteCandidates(ws.project) = << >>
                        THEN "no_git_remote" ELSE "unable_to_clone")
    /\ UNCHANGED <<lockVars, wfVars, hist, ui, st, imp, pg>>

\* self._bind_workspace(workspace); if not (workspace / ".git").exists():
\* raise RuntimeError("Invalid workspace: missing .git ...")
WsBind ==
    /\ ws.pc = "bind"
    /\ LET w == WsDid(ws, "bind") IN
       ws' = IF ~ws.mirror.git THEN WsRaise(w, "invalid_workspace")
             ELSE [w EXCEPT !.pc = "trust"]
    /\ UNCHANGED <<lockVars, wfVars, hist, ui, st, imp, pg>>

\* _ensure_safe_directory: best effort; the directory becomes trusted, or
\* the global configuration cannot be read or written and nothing changes.
WsEnsureSafeDirectory ==
    /\ ws.pc = "trust"
    /\ \E trusted \in BOOLEAN :
          ws' = [WsDid(ws, "trust") EXCEPT
                    !.pc = "validate",
                    !.mirror.repo = IF @ = "dubious" /\ trusted
                                       THEN "ok" ELSE @]
    /\ UNCHANGED <<lockVars, wfVars, hist, ui, st, imp, pg>>

\* git rev-parse --is-inside-work-tree.  In the first round an ownership
\* error leads to _ensure_safe_directory and a second try, any other error
\* to backup and reclone; in the later rounds every error is raised.
WsValidate ==
    /\ ws.pc = "validate"
    /\ LET w == WsDid(ws, "validate") IN
       ws' = IF ws.mirror.repo = "ok" THEN [w EXCEPT !.pc = "origin"]
             ELSE IF ws.round # 1 THEN WsRaise(w, "git_error")
             ELSE IF ws.mirror.repo = "dubious"
                THEN [w EXCEPT !.pc = "trust", !.round = 2]
             ELSE [w EXCEPT !.pc = "backup", !.round = 3]
    /\ UNCHANGED <<lockVars, wfVars, hist, ui, st, imp, pg>>

\* if self.active_git_remote is None: "git remote get-url origin", or the
\* project's remote when that fails; then three "git config" calls
WsConfigure ==
    /\ ws.pc = "origin"
    /\ LET w == WsDid(ws, "configure") IN
       \/ \E origin \in {"url", "share", ws.project.git_remote} :
             ws' = [w EXCEPT !.pc = "dvc_init",
                             !.active_git_remote =
                                 IF @ = "" THEN origin ELSE @]
       \/ ws' = WsRaise(w, "git_error")
    /\ UNCHANGED <<lockVars, wfVars, hist, ui, st, imp, pg>>

\* if not (workspace / ".dvc").exists(): self.dvc.init()
WsDvcInit ==
    /\ ws.pc = "dvc_init"
    /\ IF ws.mirror.dvc
          THEN ws' = [ws EXCEPT !.pc = "dvc_remote"]
          ELSE LET w == WsDid(ws, "dvc_init") IN
               \/ ws' = [w EXCEPT !.pc = "dvc_remote", !.mirror.dvc = TRUE,
                                  !.initialized_dvc = TRUE]
               \/ ws' = WsRaise(w, "dvc_error")
    /\ UNCHANGED <<lockVars, wfVars, hist, ui, st, imp, pg>>

\* DVCManager.set_default_remote: "remote modify storage url <path>" when
\* the remote storage is listed, else "remote add -d storage <path>"
SetDefaultRemote(m, path) ==
    IF m.storage # "" THEN [m EXCEPT !.storage = path]
    ELSE [m EXCEPT !.storage = path, !.default = "storage"]

\* self.dvc.set_default_remote("storage", self.active_dvc_remote)
WsSetDefaultRemote ==
    /\ ws.pc = "dvc_remote"
    /\ LET w == WsDid(ws, "dvc_remote") IN
       \/ ws' = [w EXCEPT !.pc = "datasets",
                          !.mirror = SetDefaultRemote(@, ws.active_dvc_remote)]
       \/ ws' = WsRaise(w, "dvc_error")
    /\ UNCHANGED <<lockVars, wfVars, hist, ui, st, imp, pg>>

\* if initialized_dvc or not self._has_commits()
NeedsBootstrapNever(w) == FALSE

NeedsBootstrap(w) == w.initialized_dvc \/ ~w.mirror.commits

\* (workspace / "datasets").mkdir(parents=True, exist_ok=True), then the
\* bootstrap test: return True without bootstrap
WsDatasets ==
    /\ ws.pc = "datasets"
    /\ LET w == WsDid(ws, "datasets") IN
       \/ LET v == [w EXCEPT !.mirror.datasets = TRUE] IN
          ws' = IF NeedsBootstrap(v) THEN [v EXCEPT !.pc = "checkout_main"]
                ELSE [v EXCEPT !.pc = "returned", !.result = "true"]
       \/ ws' = WsRaise(w, "os_error")
    /\ UNCHANGED <<lockVars, wfVars, hist, ui, st, imp, pg>>

\* _checkout_main_base: with a remote main, fetch and "checkout -B main
\* origin/main" (HEAD is then a commit); without, "checkout -B main"
WsCheckoutMainBase ==
    /\ ws.pc = "checkout_main"
    /\ LET w == WsDid(ws, "checkout_main") IN
       \/ \E remote_main \in BOOLEAN :
             ws' = [w EXCEPT !.pc = "commit",
                             !.mirror.commits = @ \/ remote_main]
       \/ ws' = WsRaise(w, "git_error")
    /\ UNCHANGED <<lockVars, wfVars, hist, ui, st, imp, pg>>

\* git.add([".dvc/config", ".dvc/.gitignore", ...]); git.commit(...): the
\* commit is made; or git has nothing to commit, which needs a HEAD that
\* holds the files already, and is let pass; or git fails.
WsBootstrapCommit ==
    /\ ws.pc = "commit"
    /\ LET w == WsDid(ws, "commit") IN
       \/ ws' = [w EXCEPT !.pc = "push", !.mirror.commits = TRUE]
       \/ /\ ws.mirror.commits
          /\ ws' = [w EXCEPT !.pc = "push"]
       \/ ws' = WsRaise(w, "git_error")
    /\ UNCHANGED <<lockVars, wfVars, hist, ui, st, imp, pg>>

\* _push_main_with_recovery, or "push -u origin main" on an empty remote;
\* then return True
WsBootstrapPush ==
    /\ ws.pc = "push"
    /\ LET w == WsDid(ws, "push") IN
       \/ ws' = [w EXCEPT !.pc = "returned", !.result = "true"]
       \/ ws' = WsRaise(w, "git_error")
    /\ UNCHANGED <<lockVars, wfVars, hist, ui, st, imp, pg>>

WsNext ==
    \/ WsSelectDvcRemote
    \/ WsInspect
    \/ WsBackupInvalidWorkspace
    \/ WsCloneCandidate
    \/ WsCloneExhausted
    \/ WsBind
    \/ WsEnsureSafeDirectory
    \/ WsValidate
    \/ WsConfigure
    \/ WsDvcInit
    \/ WsSetDefaultRemote
    \/ WsDatasets
    \/ WsCheckoutMainBase
    \/ WsBootstrapCommit
    \/ WsBootstrapPush

WsSpec == WsInit /\ [][WsNext]_vars

\* verify_integrity: .git and .dvc exist and rev-parse succeeds
VerifyIntegrity(m) == m.git /\ m.dvc /\ m.repo = "ok"

\* get_state returns NOT_CLONED
NotCloned(m) == ~m.exists \/ ~m.git

Configured(project) == <<project.git_remote>> \o project.git_remote_sources

\* The first place of a text among the configured items.
FirstAt(project, text) ==
    CHOOSE i \in 1..Len(Configured(project)) :
        /\ Configured(project)[i] = text
        /\ \A j \in 1..(i - 1) : Configured(project)[j] # text

\* The clone loop of this call has ended with a clone that succeeded.
CloneSucceeded ==
    Len(ws.tried) > Cardinality({i \in 1..Len(ws.errors) :
                                    ws.errors[i].why = "git_error"})

\* C18: the candidates are the configured metadata remotes, primary first,
\* without blanks and duplicates; the clone loop goes through them in this
\* order, notes every local path that is not accessible without calling
\* clone for it, calls clone for the others, ends with the first clone
\* that succeeds and makes that remote the active one; when no clone
\* succeeds it raises one error that holds a note for every candidate, and
\* no later step of the initialization runs.
C18_CloneWithFallback ==
    LET cands == GitRemoteCandidates(ws.project)
        n == Len(ws.errors) + (IF CloneSucceeded THEN 1 ELSE 0)
    IN /\ \A i \in 1..Len(cands) :
             /\ cands[i] # ""
             /\ \E k \in 1..Len(Configured(ws.project)) :
                   Configured(ws.project)[k] = cands[i]
             /\ \A j \in 1..Len(cands) :
                   /\ i # j => cands[i] # cands[j]
                   /\ i < j => FirstAt(ws.project, cands[i])
                                  < FirstAt(ws.project, cands[j])
       /\ \A k \in 1..Len(Configured(ws.project)) :
             Configured(ws.project)[k] # ""
             => \E i \in 1..Len(cands) : cands[i] = Configured(ws.project)[k]
       /\ n <= Len(cands)
       /\ \A i \in 1..Len(ws.errors) :
             /\ ws.errors[i].remote = cands[i]
             /\ ws.errors[i].why = "inaccessible"
                <=> IsLocalPath(cands[i]) /\ ~ws.share_ok
       /\ ws.tried
             = SelectSeq(SubSeq(cands, 1, n),
                         LAMBDA r : ~(IsLocalPath(r) /\ ~ws.share_ok))
       /\ CloneSucceeded
          => /\ ws.active_git_remote = cands[n]
             /\ ws.tried[Len(ws.tried)] = cands[n]
             /\ ws.pc # "clone"
       /\ ws.result \in {"unable_to_clone", "no_git_remote"}
          => /\ ~CloneSucceeded
             /\ Len(ws.errors) = Len(cands)
             /\ ws.pc = "raised"
             /\ ws.log[Len(ws.log)] = "clone"
             /\ ~ws.initialized_dvc /\ ws.mirror.default = ""
             /\ (ws.result = "no_git_remote") <=> (cands = << >>)

\* No clone succeeded: the primary, a local path, was not accessible and
\* the clone of the fallback URL failed; the error holds both notes.
C18_Witness ==
    /\ ws.result = "unable_to_clone"
    /\ ws.errors = << [remote |-> "share", why |-> "inaccessible"],
                      [remote |-> "url", why |-> "git_error"] >>
    /\ ws.tried = <<"url">>

\* The clone of a fallback succeeded after the primary's clone failed.
C18_WitnessFallback ==
    /\ CloneSucceeded /\ ws.pc = "returned"
    /\ ws.errors = << [remote |-> "url", why |-> "git_error"] >>
    /\ ws.active_git_remote = "share"

\* C19: in one call of init_workspace the corruption recovery (the mirror
\* is renamed aside as a backup and cloned again) happens at most once.
C19_RecoveryAtMostOnce == ws.recoveries <= 1

\* init_workspace moved a directory without .git aside and cloned; the
\* validation of the clone failed and it moved the clone aside as well.
C19_RecoveredTwice ==
    /\ ws.recoveries = 2 /\ ws.backups = 2 /\ ws.round = 3
    /\ ws.pc = "clone"

(***************************************************************************)
(* Reclaiming the lock of a holder that is gone                            *)
(***************************************************************************)
\* The acquire call of client c returns in this step.
AcquireReturns(c) ==
    lm[c].op = "acquire" /\ lm[c].pc # "idle" /\ lm'[c].pc = "idle"

MaxChanges == 2

\* Calls of get_state.
MaxInspections == 2

\* "## ", the start of the branch line of "git status --porcelain --branch"
BranchPrefix == <<"#", "#", " ">>

\* "HEAD"
HeadText == <<"H", "E", "A", "D">>

\* "HEAD (no branch)", what git prints for a detached HEAD
NoBranchText ==
    HeadText \o <<" ", "(", "n", "o", " ", "b", "r", "a", "n", "c", "h", ")">>

\* Branches the mirror can be on: "main" and "HEADS".
BranchNames == {<<"m", "a", "i", "n">>, HeadText \o <<"S">>}

\* HEAD points at a commit, not at a branch.
NoBranch == << >>

\* "...origin/"
UpstreamText == <<".", ".", ".", "o", "r", "i", "g", "i", "n", "/">>

\* "?? f", a porcelain line for one changed path
ChangeLine == <<"?", "?", " ", "f">>

\* str.startswith
StartsWith(text, prefix) ==
    /\ Len(text) >= Len(prefix)
    /\ SubSeq(text, 1, Len(prefix)) = prefix

\* needle in text
Contains(text, needle) ==
    \E i \in 1..(Len(text) - Len(needle) + 1) :
        SubSeq(text, i, i + Len(needle) - 1) = needle

\* The non-blank lines git prints for a mirror on `head` with n changed
\* paths.
StatusLines(head, upstream, n) ==
    << BranchPrefix
         \o (IF head = NoBranch THEN NoBranchText ELSE head)
         \o (IF upstream /\ head # NoBranch
                THEN UpstreamText \o head ELSE << >>) >>
    \o [i \in 1..n |-> ChangeLine]

\* GitManager.status: the fields of GitStatus get_state reads
Status(lines) ==
    LET branch_line == IF lines # << >> THEN lines[1] ELSE << >> IN
    [detached |-> \/ Contains(branch_line, NoBranchText)
                  \/ StartsWith(branch_line, BranchPrefix \o HeadText),
     clean |-> Len(lines) <= 1]

\* The mirrors get_state may find: those of init_workspace, each repository
\* on a branch or detached, with or without an upstream, with 0 to
\* MaxChanges changed paths, and with a "git status" that works or fails.
Inspected ==
    {m @@ [head |-> NoBranch, upstream |-> FALSE, changes |-> 0,
           status_ok |-> TRUE] : m \in {AbsentMirror, PlainMirror}}
    \cup
    {m @@ [head |-> h, upstream |-> u, changes |-> n, status_ok |-> s] :
        m \in Repositories(Conditions), h \in BranchNames \cup {NoBranch},
        u \in BOOLEAN, n \in 0..MaxChanges, s \in BOOLEAN}

StInit ==
    /\ now = StartTime /\ lockFile = AbsentFile
    /\ lm = [c \in Clients |-> IdleFrame("none", "none")]
    /\ calls = 0
    /\ held = [c \in Clients |-> NoLock]
    /\ judged = [c \in Clients |-> NoLock]
    /\ run = NoRun /\ wf = InitFrame /\ cancelled = FALSE
    /\ hist = NoHist /\ ui = NoUi /\ ws = NoWs /\ imp = NoImp
    /\ pg = NoPg
    /\ \E m \in Inspected :
          st = [phase |-> "get_state", pc |-> "idle", mirror |-> m,
                result |-> "none", previous |-> "none", fresh |-> FALSE,
                inspections |-> 0]

\* get_state returns state s.
StReturn(s) ==
    [st EXCEPT !.pc = "idle", !.result = s, !.previous = st.result,
               !.fresh = TRUE]

\* workspace.py:288-290
StGetState ==
    /\ st.pc = "idle"
    /\ st.inspections < MaxInspections
    /\ st' = IF NotCloned(st.mirror)
                THEN [StReturn("NOT_CLONED") EXCEPT !.inspections = @ + 1]
                ELSE [st EXCEPT !.pc = "verify", !.inspections = @ + 1]
    /\ UNCHANGED <<lockVars, wfVars, hist, ui, ws, imp, pg>>

\* workspace.py:292-293
StVerifyIntegrity ==
    /\ st.pc = "verify"
    /\ st' = IF ~VerifyIntegrity(st.mirror)
                THEN StReturn("CORRUPT")
                ELSE [st EXCEPT !.pc = "status"]
    /\ UNCHANGED <<lockVars, wfVars, hist, ui, ws, imp, pg>>

\* workspace.py:295-299; git.status() raises GitError when the command
\* fails or times out, and get_state does not catch it
StStatus ==
    /\ st.pc = "status"
    /\ LET m == st.mirror
           status == Status(StatusLines(m.head, m.upstream, m.changes))
       IN st' = IF ~m.status_ok THEN [st EXCEPT !.pc = "raised"]
                ELSE IF status.detached THEN StReturn("DETACHED")
                ELSE IF ~status.clean THEN StReturn("DIRTY")
                ELSE StReturn("READY")
    /\ UNCHANGED <<lockVars, wfVars, hist, ui, ws, imp, pg>>

\* Between two calls the mirror's condition changes.
StMirrorChanges ==
    /\ st.pc = "idle"
    /\ st.inspections \in 1..(MaxInspections - 1)
    /\ \E m \in Inspected \ {st.mirror} :
          st' = [st EXCEPT !.mirror = m, !.fresh = FALSE]
    /\ UNCHANGED <<lockVars, wfVars, hist, ui, ws, imp, pg>>

StNext ==
    \/ StGetState
    \/ StVerifyIntegrity
    \/ StStatus
    \/ StMirrorChanges

StSpec == StInit /\ [][StNext]_vars

\* The state of a mirror, by its condition.
StateOf(m) ==
    IF ~m.exists \/ ~m.git THEN "NOT_CLONED"
    ELSE IF ~VerifyIntegrity(m) THEN "CORRUPT"
    ELSE IF m.head = NoBranch THEN "DETACHED"
    ELSE IF m.changes > 0 THEN "DIRTY"
    ELSE "READY"

\* C22: every call of get_state returns, and what it returns is decided by
\* the mirror's condition at the call alone: NOT_CLONED when the directory
\* or its .git is missing, else CORRUPT when the integrity check fails,
\* else DETACHED when HEAD is on no named branch, else DIRTY when there are
\* uncommitted changes, else READY.
C22_StateDerivedFromMirror ==
    /\ st.pc # "raised"
    /\ (st.pc = "idle" /\ st.fresh) => st.result = StateOf(st.mirror)

\* The same with the two cases left out in which it fails: a branch whose
\* name starts with "HEAD", and a "git status" that fails.
C22_StateDerivedOnPlainBranches ==
    (st.pc = "idle" /\ st.fresh /\ ~StartsWith(st.mirror.head, HeadText))
        => st.result = StateOf(st.mirror)

\* get_state reported DETACHED for a mirror on the branch "HEADS".
C22_NamedBranchDetached ==
    /\ st.pc = "idle" /\ st.fresh /\ st.result = "DETACHED"
    /\ st.mirror.head \in BranchNames /\ st.previous = "READY"

(***************************************************************************)
(* The work of one acquire call                                            *)
(***************************************************************************)
\* Client c's acquire call makes an exclusive-create attempt in this step.
AcquireCreates(c) == lm[c].pc = "acq_open" /\ lm'[c].pc # "acq_open"

\* Client c's acquire call removes the lock file in this step.
AcquireDeletes(c) ==
    /\ lm[c].pc = "acq_unlink" /\ lm'[c].pc # "acq_unlink"
    /\ lockFile.state # "absent" /\ lockFile'.state = "absent"

\* C23: one acquire call makes at most two exclusive-create attempts and
\* removes an existing lock file at most once: a delete is only ever made
\* in the first pass of the loop, and every pass is the first or the second.
C23_AtMostOneReclaim ==
    [][\A c \in Clients :
          /\ AcquireCreates(c) => lm[c].iteration + 1 <= 2
          /\ AcquireDeletes(c) => lm[c].iteration = 0
      ]_lockVars

\* The part that holds: at most two exclusive-create attempts, at most two
\* deletes, and the call that made its second delete returns False.
C23_AtMostTwoPasses ==
    [][\A c \in Clients :
          /\ AcquireCreates(c) => lm[c].iteration + 1 <= LoopRange
          /\ AcquireDeletes(c) => lm[c].iteration + 1 <= LoopRange
          /\ (AcquireDeletes(c) /\ lm[c].iteration = 1)
                => lm'[c].pc = "idle" /\ lm'[c].result = "false"
      ]_lockVars

(***************************************************************************)
(* The lock-protected section of import                                    *)
(***************************************************************************)
\* The steps of import that work on the dataset or on the remotes.
ProtectedOps ==
    {"git_pull", "dvc_pull", "mkdir", "clear_folder", "copy_files",
     "write_metadata", "dvc_add", "git_add", "git_commit", "dvc_push",
     "git_push"}

\* The steps of import made without the lock: workspace initialization,
\* source-folder validation, and the lock phase itself.
UnprotectedOps == {"init_workspace", "validate_image_folder", "lock_check"}

\* The places of op in the log.
PlacesOf(log, op) == {i \in 1..Len(log) : log[i].op = op}

\* C24: in an import run every metadata pull, content pull, clear, copy,
\* metadata write, content add, staging, commit, content push and metadata
\* push is made after the run's acquire call returned True and before the
\* run's release call; before the acquire call the run only initializes the
\* workspace, validates the source folder and looks at the lock; after the
\* release call it does nothing.
C24_WorkOnlyUnderLock ==
    run.kind = "import"
    => LET log == wf.log
           acquires == PlacesOf(log, "lock_acquire")
           releases == PlacesOf(log, "lock_release")
       IN
       /\ Cardinality(acquires) <= 1 /\ Cardinality(releases) <= 1
       /\ \A i \in 1..Len(log) :
             /\ log[i].op \in ProtectedOps
                   => /\ wf.lock_acquired
                      /\ \E j \in acquires : j < i
                      /\ \A j \in releases : i < j
             /\ (\A j \in acquires : i < j)
                   => log[i].op \in UnprotectedOps
             /\ (\E j \in acquires : j < i)
                   => log[i].op \in ProtectedOps \cup {"lock_release"}
       /\ \A j \in releases : j = Len(log) /\ wf.lock_acquired
       /\ wf.phase = "in_acquire" => log[Len(log)].op = "lock_acquire"

\* An import made every step of its protected section, replacing the
\* dataset, and released the lock.
C24_Witness ==
    /\ Done /\ run.kind = "import" /\ run.replace_dataset
    /\ wf.result.success /\ wf.lock_acquired
    /\ ProtectedOps \subseteq OpsOf(wf.log)
    /\ wf.log[Len(wf.log)].op = "lock_release"
    /\ lockFile = AbsentFile /\ lm[Importer].result = "true"

(***************************************************************************)
(* ImpSpec: two clients of different identity import into the same         *)
(* (project, dataset).  Of each run the lock phase is modelled step by     *)
(* step (check, acquire, release: import_workflow.py:49-64 and 171-178,    *)
(* api.py:71-88 and 193-200); the work between acquire and release is a    *)
(* number of steps.                                                        *)
(***************************************************************************)
\* Steps of the lock-protected section of one run.
MaxSteps == 2

Importers == {"c1", "c2"}

\* Position of a client's import run:
\*   phase  "start", "to_acquire", "in_acquire", "section", "in_release",
\*          "done"
\*   lock   the record the run's acquire call built (NoLock before)
\*   steps  steps of the protected section made so far
\*   ok     acquire returned True
ImpFrame(phase, lock, steps, ok) ==
    [phase |-> phase, lock |-> lock, steps |-> steps, ok |-> ok]

ImpInit ==
    /\ LockInit
    /\ run = NoRun /\ wf = InitFrame /\ cancelled = FALSE
    /\ hist = NoHist /\ ui = NoUi /\ ws = NoWs /\ st = NoSt
    /\ pg = NoPg
    /\ imp = [c \in Importers |-> ImpFrame("start", NoLock, 0, FALSE)]

\* existing = lock_manager.check(...); if existing and not
\* lock_manager.is_stale(existing): raise RuntimeError("Dataset locked ...")
ImpLockCheck(c) ==
    /\ imp[c].phase = "start"
    /\ LET existing == ReadLockInfo(lockFile) IN
       imp' = [imp EXCEPT ![c].phase =
                  IF existing # NoLock /\ ~IsStale(existing, now)
                     THEN "done" ELSE "to_acquire"]
    /\ UNCHANGED <<lockVars, wfVars, hist, ui, ws, st, pg>>

\* lock_acquired = lock_manager.acquire(...) is called ...
ImpAcquireCall(c) ==
    /\ imp[c].phase = "to_acquire"
    /\ AcquireEnter(c)
    /\ imp' = [imp EXCEPT ![c].phase = "in_acquire",
                          ![c].lock = LockInfo(c, now)]
    /\ UNCHANGED <<calls, wfVars, hist, ui, ws, st, pg>>

\* ... and returns; False ends the run
ImpAcquireReturn(c) ==
    /\ imp[c].phase = "in_acquire"
    /\ lm[c].pc = "idle"
    /\ imp' = [imp EXCEPT ![c].phase = IF lm[c].result = "true"
                                          THEN "section" ELSE "done",
                          ![c].ok = (lm[c].result = "true")]
    /\ UNCHANGED <<lockVars, wfVars, hist, ui, ws, st, pg>>

\* One step of the protected section: a pull, the clearing or copying of
\* dataset files, a commit or a push.
ImpWork(c) ==
    /\ imp[c].phase = "section"
    /\ imp[c].steps < MaxSteps
    /\ imp' = [imp EXCEPT ![c].steps = @ + 1]
    /\ UNCHANGED <<lockVars, wfVars, hist, ui, ws, st, pg>>

\* finally: if lock_acquired: lock_manager.release(...) is called, after
\* the last step or after a step that failed or was cancelled ...
ImpReleaseCall(c) ==
    /\ imp[c].phase = "section"
    /\ ReleaseEnter(c)
    /\ imp' = [imp EXCEPT ![c].phase = "in_release"]
    /\ UNCHANGED <<calls, wfVars, hist, ui, ws, st, pg>>

\* ... and returns
ImpReleaseReturn(c) ==
    /\ imp[c].phase = "in_release"
    /\ lm[c].pc = "idle"
    /\ imp' = [imp EXCEPT ![c].phase = "done"]
    /\ UNCHANGED <<lockVars, wfVars, hist, ui, ws, st, pg>>

\* The steps of the clients' acquire and release calls
ImpLockStep(c) ==
    \/ AcquireOpen(c)
    \/ AcquireWrite(c)
    \/ AcquireRead(c)
    \/ AcquireReread(c)
    \/ AcquireUnlink(c)
    \/ ReleaseCheck(c)
    \/ ReleaseUnlink(c)

ImpNext ==
    \/ Tick
    \/ \E c \in Importers :
          \/ ImpLockCheck(c)
          \/ ImpAcquireCall(c)
          \/ ImpAcquireReturn(c)
          \/ ImpWork(c)
          \/ ImpReleaseCall(c)
          \/ ImpReleaseReturn(c)
          \/ ImpLockStep(c)

ImpSpec == ImpInit /\ [][ImpNext]_vars

\* Client c's acquire call has returned True and its release has not been
\* called.
InSection(c) ==
    \/ imp[c].phase = "section"
    \/ imp[c].phase = "in_acquire" /\ lm[c].pc = "idle"
                                   /\ lm[c].result = "true"

\* ... and the record it built is younger than its TTL.
HoldsFreshLock(c) == InSection(c) /\ ~IsStale(imp[c].lock, now)

\* C25: while the import of one client holds a lock that is younger than
\* its TTL and not yet released, the acquire of the other client's import
\* does not return True: the other import does not enter its protected
\* section, so it makes no pull, clear, copy, commit or push.
C25_SectionsNeverOverlap ==
    [][\A c, d \in Importers :
          (c # d /\ HoldsFreshLock(c) /\ ~InSection(d)) => ~InSection(d)'
      ]_vars

\* Both imports are inside their protected sections, each with a record of
\* its own that is younger than its TTL, and both have made steps.
C25_Overlap ==
    /\ HoldsFreshLock("c1") /\ HoldsFreshLock("c2")
    /\ imp["c1"].steps > 0 /\ imp["c2"].steps > 0
    /\ imp["c1"].lock.timestamp = imp["c2"].lock.timestamp

(***************************************************************************)
(* Cancel checks before calls                                              *)
(***************************************************************************)
\* A call of the metadata client or of the content client is invoked in
\* this step, outside the retry helper ...
CallInvoked ==
    /\ wf.phase = "run" /\ wf.pc > 0 /\ Cur.k # "retry"
    /\ Len(wf'.log) = Len(wf.log) + 1
    /\ wf'.log[Len(wf'.log)].op \in ClientOps

\* ... by the retry helper
AttemptInvoked ==
    /\ wf.phase = "run" /\ wf.pc > 0 /\ Cur.k = "retry"
    /\ wf'.tries = IF wf.attempt = 0 THEN 1 ELSE wf.tries + 1
    /\ wf'.phase = "inop"

\* A progress notice is emitted in this step.
ProgressEmitted ==
    \/ At("emit") /\ wf'.phase = "run" /\ wf'.pc # wf.pc
    \/ wf.phase = "notice" /\ wf'.phase = "run"

\* C26: in every workflow the cancel flag is tested before every progress
\* emission and before every call of the metadata client or the content
\* client: no such call is invoked unless the flag was tested after
\* whatever the run called before it, and an emission or an attempt of a
\* retried step is never made with the flag set.
C26_CheckBeforeEveryCall ==
    [][/\ CallInvoked => wf.checked
       /\ AttemptInvoked => ~cancelled
       /\ ProgressEmitted => ~cancelled
      ]_vars

\* The part that holds: the same, except for the commit of import and the
\* branch query of fetch, which follow another call directly.
C26_CheckBeforeMostCalls ==
    [][/\ CallInvoked
          => \/ wf.checked
             \/ run.kind = "import" /\ Cur.op = "git_commit"
             \/ run.kind = "fetch" /\ Cur.op = "git_current_branch"
       /\ AttemptInvoked => ~cancelled
       /\ ProgressEmitted => ~cancelled
      ]_vars

\* An import whose cancellation was requested while it staged its files
\* has made its commit all the same.
C26_CommitAfterCancel ==
    /\ run.kind = "import" /\ cancelled /\ ~wf.seen
    /\ Len(wf.log) > 1
    /\ wf.log[Len(wf.log)].op = "git_commit"
    /\ wf.log[Len(wf.log) - 1].op = "git_add"
    /\ wf.has_changes /\ wf.phase = "run"

(***************************************************************************)
(* Content before metadata                                                 *)
(***************************************************************************)
\* The content push step of this run ends in this step without success:
\* its last attempt failed, or the cancellation was raised in it.
ContentPushGivenUp ==
    /\ wf.pc > 0 /\ wf.phase \in {"inop", "notice"}
    /\ Cur.op = "dvc_push"
    /\ wf'.pc = 0

\* C27: in publish and in import an attempt of the metadata push is only
\* made when the content push of the run was invoked before and its last
\* attempt succeeded; when the content push is given up (its error left
\* the retry, or it was cancelled) the run makes no metadata push, then or
\* later.
C27_ContentBeforeMetadata ==
    [][run.kind \in {"publish", "import"}
       => /\ (AttemptInvoked /\ Cur.op = "git_push")
             => /\ "dvc_push" \in OpsOf(wf.log)
                /\ ~wf.result.set /\ ~wf.seen
                /\ (wf.attempt = 0
                      /\ wf.log[Len(wf.log)].op = "dvc_push")
                   => wf.tries = wf.fails + 1
          /\ ContentPushGivenUp => "git_push" \notin OpsOf(wf'.log)
          /\ wf.pc = 0
             => /\ wf'.pc = 0
                /\ "git_push" \in OpsOf(wf'.log)
                      => "git_push" \in OpsOf(wf.log)
      ]_vars

\* A publish whose content push failed three times has ended without a
\* metadata push.
C27_Witness ==
    /\ Done /\ run.kind = "publish" /\ ~wf.result.success
    /\ wf.result.msg.t = "error" /\ wf.result.msg.op = "dvc_push"
    /\ wf.result.msg.n = Attempts
    /\ "git_push" \notin OpsOf(wf.log)
    /\ wf.log[Len(wf.log)].op = "dvc_push"

\* An import made its metadata push after a content push that succeeded at
\* its second attempt.
C27_WitnessPushed ==
    /\ Done /\ run.kind = "import" /\ wf.result.success
    /\ wf.retried = 1
    /\ wf.last.op = "dvc_push"
    /\ wf.log[Len(wf.log) - 1].op = "git_push"

(***************************************************************************)
(* Which calls are retried                                                 *)
(***************************************************************************)
\* The calls of the metadata and content clients made outside the retry
\* helper.
OnceOps == ((GitOps \cup DvcOps) \cup {"git_commit"}) \ RetriedOps

\* The last client call of the run, the release of the lock apart.
RECURSIVE LastCall(_)
LastCall(log) ==
    IF log = << >> THEN ""
    ELSE IF log[Len(log)].op = "lock_release"
       THEN LastCall(SubSeq(log, 1, Len(log) - 1))
    ELSE log[Len(log)].op

\* C28: only git pull, git push, dvc pull and dvc push go through the retry
\* helper.  Every other call of the two clients is made at most once in a
\* run and never gets a second attempt or a retry notice; when it raises,
\* with a message that matches a transient-network indicator or not, the
\* run ends with that error as its outcome and makes no further call.  (The
\* "nothing to commit" reply of git commit is the no-changes outcome of the
\* commit, not a failure.)
C28_RetryOnlyForNetworkSteps ==
    /\ \A i, j \in 1..Len(wf.log) :
          (i < j /\ wf.log[i].op = wf.log[j].op)
             => wf.log[i].op \in RetriedOps
    /\ \A i \in 1..Len(wf.log) :
          wf.log[i].at > 0
             => (wf.log[i].op \in RetriedOps
                    <=> Program[wf.log[i].at].k = "retry")
    /\ (wf.pc > 0 /\ (wf.phase = "notice" \/ wf.attempt > 1))
          => Cur.k = "retry" /\ Cur.op \in RetriedOps
    /\ (wf.raised # NoErr /\ ~IsNothingToCommit(wf.raised))
          => /\ wf.pc = 0
             /\ LastCall(wf.log) \notin RetriedOps
             /\ wf.raised.cls \in {"GitError", "DVCError"}
                   => LastCall(wf.log) \in OnceOps
             /\ wf.result
                   = Result(FALSE, ErrMsg(LastCall(wf.log), 1, wf.raised))
             /\ wf.errors = 1

\* A restore whose git checkout timed out: one attempt, the run failed with
\* the timeout as its message.
C28_Witness ==
    /\ Done /\ run.kind = "restore"
    /\ IsRetryableNetworkError(wf.raised)
    /\ wf.result = Result(FALSE, ErrMsg("git_checkout", 1, wf.raised))
    /\ [i \in 1..Len(wf.log) |-> wf.log[i].op]
          = << "init_workspace", "git_checkout" >>
    /\ wf.retried = 0

(***************************************************************************)
(* Cancellation between two attempts                                       *)
(***************************************************************************)
\* C29: when the cancellation flag is set while a retried step is between
\* two attempts, the next thing the run does is to end as cancelled: the
\* operation is not invoked again, the outcome is "Cancelled by user.", and
\* the error callback is not called, neither then nor later in the run.
C29_CancelBetweenAttempts ==
    [][/\ (BetweenAttempts(wf) /\ cancelled /\ wf' # wf)
          => /\ wf'.pc = 0
             /\ wf'.result = Result(FALSE, CancelMsg)
             /\ wf'.tries = wf.tries
             /\ wf'.log = wf.log
             /\ wf'.errors = wf.errors
       /\ (wf.between /\ wf.result.set)
          => /\ wf.result = Result(FALSE, CancelMsg)
             /\ wf'.result = wf.result
             /\ wf'.tries = wf.tries
             /\ wf'.errors = wf.errors
             /\ wf'.errors = 0
             /\ OpsOf(wf'.log) \ {"lock_release"} = OpsOf(wf.log)
                                                       \ {"lock_release"}
      ]_vars

\* A fetch cancelled during the sleep after the first failed attempt of its
\* git pull: one attempt, cancelled, nothing reported as an error.
C29_Witness ==
    /\ Done /\ run.kind = "fetch" /\ wf.between
    /\ wf.result = Result(FALSE, CancelMsg)
    /\ wf.last.op = "git_pull" /\ wf.last.n = 1
    /\ IsRetryableNetworkError(wf.last.e)
    /\ wf.tries = 1 /\ wf.fails = 1
    /\ wf.checked
    /\ wf.errors = 0

(***************************************************************************)
(* The order of the calls                                                  *)
(***************************************************************************)
\* git.checkout(self.commit_ref) in restore, git.checkout("main") elsewhere
CheckoutRef(r) == IF r.kind = "restore" THEN "commit_ref" ELSE "main"

Made(op, ref) == [op |-> op, ref |-> ref]

\* The calls a run has made so far, with the revision of a checkout.
CallsMade ==
    [i \in 1..Len(wf.log) |->
        Made(wf.log[i].op,
             IF wf.log[i].op = "git_checkout" THEN CheckoutRef(run) ELSE "")]

FetchSequence ==
    << Made("init_workspace", ""), Made("git_status", ""),
       Made("git_pull", ""), Made("dvc_pull", ""),
       Made("dvc_checkout", ""), Made("git_current_branch", "") >>

RestoreSequence ==
    << Made("init_workspace", ""), Made("git_checkout", "commit_ref"),
       Made("dvc_checkout", "") >>

ReturnSequence ==
    << Made("init_workspace", ""), Made("git_checkout", "main"),
       Made("git_pull", ""), Made("dvc_pull", ""),
       Made("dvc_checkout", "") >>

IsPrefix(s, t) == Len(s) <= Len(t) /\ s = SubSeq(t, 1, Len(s))

\* No attempt of the run has failed.
FirstAttemptsOnly == wf.retried = 0 /\ wf.last = NoLast /\ wf.raised = NoErr

\* C30: a fetch, restore or return-to-latest in which every step succeeded
\* at its first attempt has made exactly the calls of its sequence, once
\* each and in that order; while it runs, the calls made so far are the
\* beginning of that sequence.
C30_CallOrder ==
    LET expected == CASE run.kind = "fetch" -> FetchSequence
                      [] run.kind = "restore" -> RestoreSequence
                      [] run.kind = "return_to_latest" -> ReturnSequence
                      [] OTHER -> << >>
    IN (run.kind \in {"fetch", "restore", "return_to_latest"}
           /\ FirstAttemptsOnly)
       => /\ IsPrefix(CallsMade, expected)
          /\ (wf.result.set /\ wf.result.success) => CallsMade = expected
          /\ wf.tries <= 1

\* A return-to-latest has succeeded without a failed attempt.
C30_Witness ==
    /\ Done /\ run.kind = "return_to_latest" /\ FirstAttemptsOnly
    /\ wf.result.success /\ wf.errors = 0
    /\ CallsMade = ReturnSequence

\* A restore has succeeded without a failed attempt.
C30_WitnessRestore ==
    /\ Done /\ run.kind = "restore" /\ FirstAttemptsOnly
    /\ wf.result.success
    /\ CallsMade = RestoreSequence

\* A fetch has succeeded without a failed attempt.
C30_WitnessFetch ==
    /\ Done /\ run.kind = "fetch" /\ FirstAttemptsOnly
    /\ wf.result.success
    /\ CallsMade = FetchSequence

(***************************************************************************)
(* A failed step ends the run                                              *)
(***************************************************************************)
\* An error leaves a step in this step of the run: a call made directly
\* raised, or an attempt of a retried step raised an error that is not
\* retryable or was the last attempt.
ErrorLeavesStep ==
    \/ wf'.raised # wf.raised
    \/ /\ RetryFailedStep
       /\ ~IsRetryableNetworkError(wf'.last.e) \/ IsLast(wf'.last.n)

\* The error that left the step.
LeftWith ==
    IF wf'.raised # wf.raised
       THEN ErrMsg(LastCall(wf'.log), 1, wf'.raised)
       ELSE ErrMsg(wf'.last.op, wf'.last.n, wf'.last.e)

\* The run ends in this step with the error that left the step.
EndsWithError ==
    /\ wf'.pc = 0
    /\ wf'.result = Result(FALSE, LeftWith)
    /\ wf'.errors = wf.errors + 1

\* Once the outcome is set the run makes no client call and keeps it.
OutcomeIsFinal ==
    wf.result.set
       => /\ wf'.result = wf.result
          /\ wf'.pc = 0
          /\ OpsOf(wf'.log) \ {"lock_release"} = OpsOf(wf.log)
                                                    \ {"lock_release"}

\* The two errors a body handles itself: git commit's "nothing to commit",
\* and a non-fast-forward rejection of publish's first metadata push.
HandledByBody ==
    \/ /\ wf'.raised # wf.raised
       /\ Cur.k = "commit"
       /\ wf'.raised.cls = "GitError" /\ IsNothingToCommit(wf'.raised)
    \/ /\ wf'.raised = wf.raised
       /\ Cur.guarded
       /\ wf'.last.e.cls = "GitError" /\ IsNonFastForwardError(wf'.last.e)

\* C31 as stated: whenever an error leaves a step, the run ends with that
\* error as its message and makes no client call afterwards.
C31_FailedStepEndsRun ==
    [][/\ ErrorLeavesStep => EndsWithError
       /\ OutcomeIsFinal
      ]_vars

\* C31 amended: as above, except for the two errors the body handles: after
\* "nothing to commit" the run goes on without pushing, after a rejected
\* first push publish goes on with its pull and second push.
C31_FailedStepEndsRunUnlessHandled ==
    [][/\ ErrorLeavesStep
          => IF HandledByBody
                THEN /\ ~wf'.result.set /\ wf'.pc > wf.pc
                     /\ wf'.errors = wf.errors
                ELSE EndsWithError
       /\ OutcomeIsFinal
      ]_vars

\* A return-to-latest whose content pull raised an error that is not
\* retryable: the run failed with it and made no content checkout.
C31_Witness ==
    /\ Done /\ run.kind = "return_to_latest"
    /\ wf.last.op = "dvc_pull" /\ wf.last.n = 1
    /\ ~IsRetryableNetworkError(wf.last.e)
    /\ wf.result = Result(FALSE, ErrMsg("dvc_pull", 1, wf.last.e))
    /\ "dvc_checkout" \notin OpsOf(wf.log)
    /\ wf.errors = 1

\* A publish went on after an error: its first push was rejected and the
\* pull of the rebase-and-retry was made.
C31_WentOn ==
    /\ run.kind = "publish" /\ wf.recovering
    /\ wf.last.op = "git_push" /\ ~IsRetryableNetworkError(wf.last.e)
    /\ Len(wf.log) > 1
    /\ wf.log[Len(wf.log)].op = "git_pull"
    /\ wf.log[Len(wf.log) - 1].op = "git_push"

(***************************************************************************)
(* The backup of an invalid mirror                                         *)
(***************************************************************************)
\* C32: when init_workspace comes to back up the mirror directory (it
\* exists without .git, or its .git fails the validation), either the
\* directory is renamed to a backup name that no directory had, keeping its
\* files, and _clone_with_fallback starts on an absent directory; or the
\* call raises with the directory and every backup as they were.  No step
\* of the call removes or replaces a backup, the backups found at the start
\* included, and the files the directory held at the start are always
\* either still in it or in a backup.  A call that returns after a backup
\* returns on a fresh clone.
C32_BackupKeepsEverything ==
    [][/\ ws.pc = "backup"
          => IF ws'.pc = "clone"
                THEN /\ \E i \in FreeNames(ws.backup_dirs) :
                           ws'.backup_dirs
                              = ws.backup_dirs \cup {BackupDir(i, ws.files)}
                     /\ ws'.mirror = AbsentMirror /\ ws'.files = "none"
                     /\ ws'.idx = 1 /\ ws'.tried = << >>
                ELSE /\ ws'.pc = "raised" /\ ws'.result = "backup_failed"
                     /\ ws'.mirror = ws.mirror /\ ws'.files = ws.files
                     /\ ws'.backup_dirs = ws.backup_dirs
       /\ ws.pc # "backup" => ws'.backup_dirs = ws.backup_dirs
       /\ ws.backup_dirs \subseteq ws'.backup_dirs
       /\ ws.earlier \subseteq ws.backup_dirs
       /\ \A b \in ws.backup_dirs : b.content # "none"
       /\ (ws.mirror.exists /\ ws.files = "original")
          => \/ ws'.files = "original" /\ ws'.mirror.exists
             \/ \E b \in ws'.backup_dirs : b.content = "original"
       /\ (ws'.pc = "returned" /\ ws'.backups > 0)
          => ws'.files = "cloned" /\ ws'.mirror.git
      ]_vars

\* A directory without .git was renamed to the third name, the first two
\* being taken, and the call returned on a fresh clone.
C32_Witness ==
    /\ ws.phase = "init_workspace" /\ ws.pc = "returned"
    /\ ws.result = "true"
    /\ ws.earlier = {BackupDir(0, "earlier"), BackupDir(1, "earlier")}
    /\ ws.backup_dirs = ws.earlier \cup {BackupDir(2, "original")}
    /\ ws.files = "cloned"
    /\ ws.log[2] = "backup"

\* Every backup name was taken: the call raised and the directory is as it
\* was.
C32_NoFreeName ==
    /\ ws.phase = "init_workspace" /\ ws.pc = "raised"
    /\ ws.result = "backup_failed"
    /\ FreeNames(ws.backup_dirs) = {}
    /\ ws.files = "original" /\ ws.mirror.exists
    /\ ws.backup_dirs = ws.earlier

(***************************************************************************)
(* Staleness                                                               *)
(***************************************************************************)
\* Client c's acquire evaluates is_stale on the record it has just read
\* (first read) or read again (re-read) in this step.
JudgesRecord(c) ==
    /\ lm[c].pc \in {"acq_read", "acq_reread"}
    /\ lm'[c].pc # lm[c].pc
    /\ ReadLockInfo(lockFile) # NoLock
    /\ lm[c].pc = "acq_reread"
          => SameLock(ReadLockInfo(lockFile), lm[c].existing)

\* is_stale answered True: the call goes on towards the removal.
JudgedStale(c) == lm'[c].pc \in {"acq_reread", "acq_unlink"}

\* C33: is_stale answers True exactly when the record's timestamp cannot be
\* parsed or the clock reading minus the timestamp is strictly greater than
\* the TTL written in the record, whatever the TTL of the examining client;
\* a record exactly as old as its TTL, and a record with a timestamp in the
\* future, are not stale.
C33_StaleExactly ==
    [][\A c \in Clients :
          JudgesRecord(c)
          => LET r == ReadLockInfo(lockFile) IN
             /\ JudgedStale(c)
                   <=> \/ r.timestamp = BadTimestamp
                       \/ now - r.timestamp > r.ttl_hours
             /\ (r.timestamp # BadTimestamp
                    /\ now - r.timestamp = r.ttl_hours) => ~JudgedStale(c)
             /\ (r.timestamp # BadTimestamp /\ r.timestamp > now)
                   => ~JudgedStale(c)
             /\ ~JudgedStale(c) => lm'[c].result = "false"
      ]_vars

\* History: c1 (TTL 1) found c2's record (TTL 2) two hours old, older than
\* its own TTL and exactly as old as the record's, and gave up.
C33_Witness ==
    /\ lm["c1"].pc = "idle" /\ lm["c1"].op = "acquire"
    /\ lm["c1"].result = "false"
    /\ lockFile.state = "data" /\ lockFile.owner = "c2"
    /\ now - lockFile.info.timestamp = lockFile.info.ttl_hours
    /\ now - lockFile.info.timestamp > TtlHours["c1"]
    /\ calls = 2

\* A record from the future was left in place.
C33_WitnessFuture ==
    /\ \E c \in Acquirers :
          /\ lm[c].pc = "idle" /\ lm[c].op = "acquire"
          /\ lm[c].result = "false"
    /\ lockFile.state = "data" /\ lockFile.owner = "prior"
    /\ lockFile.info.timestamp > now
    /\ calls = 1

\* c2 (TTL 2) judged a record with TTL 1 stale at the age of two hours.
C33_WitnessOwnTtl ==
    /\ lm["c2"].pc = "acq_reread"
    /\ lm["c2"].existing.timestamp # BadTimestamp
    /\ now - lm["c2"].existing.timestamp = TtlHours["c2"]
    /\ lm["c2"].existing.ttl_hours < TtlHours["c2"]

(***************************************************************************)
(* The re-read of the reclaim step                                         *)
(***************************************************************************)
\* Client c's _try_remove_stale_if_unchanged re-reads the file in this step.
Rereads(c) == lm[c].pc = "acq_reread" /\ lm'[c].pc # lm[c].pc

\* C34: when the re-read finds no record (the file is missing or does not
\* parse), a record that is not the one first observed, or a record that is
\* not stale, the acquire call returns False in that step and the lock file
\* is exactly as it was.
C34_RereadAbandons ==
    [][\A c \in Clients :
          Rereads(c)
          => LET current == ReadLockInfo(lockFile) IN
             (\/ current = NoLock
              \/ current # lm[c].existing
              \/ /\ current.timestamp # BadTimestamp
                 /\ now - current.timestamp <= current.ttl_hours)
             => /\ lm'[c].pc = "idle" /\ lm'[c].result = "false"
                /\ lm'[c].op = "acquire"
                /\ lockFile' = lockFile
      ]_vars

\* c2 first read a stale record left behind; c1 replaced it meanwhile; c2
\* has returned False from the re-read with c1's record in place.
C34_Witness ==
    /\ lm["c2"].pc = "idle" /\ lm["c2"].op = "acquire"
    /\ lm["c2"].result = "false"
    /\ judged["c2"] # NoLock
    /\ lockFile.state = "data" /\ lockFile.owner = "c1"
    /\ lockFile.info # judged["c2"]
    /\ lockFile.info.username = judged["c2"].username
    /\ lockFile.info.machine = judged["c2"].machine
    /\ held["c1"] = lockFile.info
    /\ lm["c1"].pc = "idle" /\ lm["c1"].result = "true"
    /\ calls = 2

\* The re-read is about to find the record replaced.
C34_Replaced ==
    \E c \in Acquirers :
       /\ lm[c].pc = "acq_reread"
       /\ lockFile.state = "data"
       /\ lockFile.info # lm[c].existing

\* The re-read is about to find the file gone.
C34_Missing ==
    \E c \in Acquirers :
       /\ lm[c].pc = "acq_reread"
       /\ lockFile.state = "absent"

(***************************************************************************)
(* PgSpec -- the percent values that reach the caller's progress callback: *)
(* the literals of the workflow bodies and the retry notice, through       *)
(* _emit_progress; the values DVCManager._run_stream reads from the output *)
(* of dvc, forwarded through _emit_progress or, in import_dataset's        *)
(* dvc.pull, handed to the caller's callback directly; and the values      *)
(* copy_files computes.                                                    *)
(***************************************************************************)
\* The longest line of dvc output, in characters.
MaxLineLen == 5

\* The largest number of files copy_files copies.
MaxCopied == 3

\* The number of reports followed.
MaxReports == 2

\* The percent arguments written in the bodies of the workflows.
Percents ==
    {2, 5, 8, 10, 12, 15, 18, 20, 30, 40, 45, 50, 55, 60, 62, 65, 70, 75, 78,
     80, 88, 90, 94, 95, 100}

\* The characters of a line: digits, the percent sign, anything else.
Digits == {"0", "1", "9"}

LineChars == Digits \cup {"%", "x"}

Lines == SeqsUpTo(LineChars, MaxLineLen)

DigitValue(ch) == CASE ch = "0" -> 0 [] ch = "1" -> 1 [] OTHER -> 9

\* int(text) of a run of digits
RECURSIVE Number(_)
Number(ds) ==
    IF ds = << >> THEN 0
    ELSE 10 * Number(SubSeq(ds, 1, Len(ds) - 1)) + DigitValue(ds[Len(ds)])

\* Where r"(\d{1,3})%" matches in line from position i with k digits.
MatchesAt(line, i, k) ==
    /\ i + k <= Len(line)
    /\ \A j \in i..(i + k - 1) : line[j] \in Digits
    /\ line[i + k] = "%"

\* percent_re.search(line): the digits of the leftmost match, << >> when
\* there is none.
Search(line) ==
    LET starts == {i \in 1..Len(line) : \E k \in 1..3 : MatchesAt(line, i, k)}
    IN IF starts = {} THEN << >>
       ELSE LET i == CHOOSE x \in starts : \A y \in starts : x <= y
                k == CHOOSE x \in 1..3 : MatchesAt(line, i, x)
            IN SubSeq(line, i, i + k - 1)

CappedNot(n) == n

\* min(int(match.group(1)), 100)
Capped(n) == IF n < 100 THEN n ELSE 100

\* DVCManager._run_stream: the percent it reports for a line of output
StreamPercent(line) ==
    IF Search(line) = << >> THEN 0 ELSE Capped(Number(Search(line)))

\* copy_files: int(copied * 100 / total) if total else 100
CopyPercent(copied, total) ==
    IF total = 0 THEN 100 ELSE (copied * 100) \div total

\* _emit_progress: max(0, min(100, percent))
Clamp(percent) ==
    IF percent < 0 THEN 0 ELSE IF percent > 100 THEN 100 ELSE percent

\* The workflow is running and may report progress.
Reporting == pg.phase = "reporting" /\ pg.n < MaxReports

\* The caller's callback is called with percent; via says which way the
\* value came.
Delivered(via, line, percent) ==
    /\ pg' = [phase |-> "delivered", n |-> pg.n + 1, via |-> via,
              line |-> line, percent |-> percent]
    /\ UNCHANGED <<lockVars, wfVars, hist, ui, ws, st, imp>>

PgInit ==
    /\ now = StartTime /\ lockFile = AbsentFile
    /\ lm = [c \in Clients |-> IdleFrame("none", "none")]
    /\ calls = 0
    /\ held = [c \in Clients |-> NoLock]
    /\ judged = [c \in Clients |-> NoLock]
    /\ run = NoRun /\ wf = InitFrame /\ cancelled = FALSE
    /\ hist = NoHist /\ ui = NoUi /\ ws = NoWs /\ st = NoSt /\ imp = NoImp
    /\ pg = [phase |-> "reporting", n |-> 0, via |-> "none", line |-> << >>,
             percent |-> 0]

\* self._emit_progress("...", percent) in a body
PgEmitLiteral ==
    /\ Reporting
    /\ \E p \in Percents : Delivered("literal", << >>, Clamp(p))

\* the retry notice: self._emit_progress(f"{label} failed ...", 0)
PgRetryNotice == Reporting /\ Delivered("notice", << >>, Clamp(0))

\* a line of dvc output, with progress_cb=self._emit_progress or the lambda
\* around it
PgStreamChecked ==
    /\ Reporting
    /\ \E line \in Lines :
          Delivered("checked", line, Clamp(StreamPercent(line)))

\* a line of dvc output, with progress_cb=progress_cb (api.py:97)
PgStreamRaw ==
    /\ Reporting
    /\ \E line \in Lines : Delivered("raw", line, StreamPercent(line))

\* "Recovered DVC local state DB, retrying...", 0
PgStreamRecovered ==
    /\ Reporting
    /\ \E via \in {"raw", "checked"} :
          Delivered(via, << >>, IF via = "raw" THEN 0 ELSE Clamp(0))

\* copy_files: one report per file, "Copy complete" at the end
PgCopy ==
    /\ Reporting
    /\ \E total \in 0..MaxCopied :
          \/ \E copied \in 1..total :
                Delivered("copy", << >>, Clamp(CopyPercent(copied, total)))
          \/ Delivered("copy", << >>, Clamp(100))

\* the callback returns and the workflow goes on to its next report
PgReturn ==
    /\ pg.phase = "delivered"
    /\ pg' = [phase |-> "reporting", n |-> pg.n, via |-> "none",
              line |-> << >>, percent |-> 0]
    /\ UNCHANGED <<lockVars, wfVars, hist, ui, ws, st, imp>>

PgNext ==
    \/ PgEmitLiteral
    \/ PgRetryNotice
    \/ PgStreamChecked
    \/ PgStreamRaw
    \/ PgStreamRecovered
    \/ PgCopy
    \/ PgReturn

PgSpec == PgInit /\ [][PgNext]_vars

\* C35: every percent the caller's progress callback receives is an integer
\* from 0 to 100, whichever way it came.
C35_PercentInRange ==
    pg.phase = "delivered" => pg.percent \in 0..100

\* dvc printed a number above 100 before the percent sign during
\* import_dataset's pull; the callback received 100.
C35_Witness ==
    /\ pg.phase = "delivered"
    /\ pg.via = "raw"
    /\ Search(pg.line) # << >>
    /\ Number(Search(pg.line)) > 100
    /\ pg.percent = 100

(***************************************************************************)
(* C36 -- what check() reports as absent and what acquire() does with it   *)
(***************************************************************************)
\* LockManager.check: None is "no lock reported".
CheckReportsNone == ReadLockInfo(lockFile) = NoLock

\* An acquire call of c returns False in this step, and no other client was
\* inside a call, or started one, while it ran: the file is as it was when
\* the call began.
AcquireRefusedAlone(c) ==
    /\ lm[c].pc # "idle" /\ lm[c].op = "acquire"
    /\ lm[c].alone
    /\ lm'[c].pc = "idle" /\ lm'[c].result = "false"

\* C36: a lock file for which check returns None never blocks acquisition:
\* an acquire call during which no other client acts does not return False
\* when check reports no lock.
C36_AbsentNeverBlocks ==
    [][\A c \in Clients : AcquireRefusedAlone(c) => ~CheckReportsNone]_vars

\* What does hold: a file that is missing never blocks acquisition; an
\* acquire call that ran alone is refused only when the file exists.
C36_MissingNeverBlocks ==
    [][\A c \in Clients :
          AcquireRefusedAlone(c) => lockFile.state # "absent"]_vars

\* An empty file left by a crashed writer: check reports no lock, and the
\* acquire of c1, run alone, has returned False with the file still there.
C36_Blocked ==
    /\ lockFile = EmptyFile("prior")
    /\ CheckReportsNone
    /\ lm["c1"].pc = "idle" /\ lm["c1"].op = "acquire"
    /\ lm["c1"].result = "false"
    /\ \A c \in Clients : lm[c].pc = "idle"
    /\ calls = 1

(***************************************************************************)
(* C37 -- what the release at the end of an import removes                 *)
(***************************************************************************)
\* The release call of c's import unlinks the lock file in this step.
ImpReleaseRemoves(c) ==
    /\ imp[c].phase = "in_release"
    /\ lm[c].pc = "rel_unlink"
    /\ lockFile.state # "absent"
    /\ lockFile' = AbsentFile

\* The file holds the record that c's own acquire wrote.
OwnRecord(c) ==
    /\ lockFile.state = "data"
    /\ lockFile.owner = c
    /\ lockFile.info = imp[c].lock

\* C37: the release at the end of an import removes nothing but the record
\* that the run's own acquire created; a newer lock, written by a client
\* that reclaimed the run's stale lock, is left in place.
C37_ReleaseOwnRecordOnly ==
    [][\A c \in Importers : ImpReleaseRemoves(c) => OwnRecord(c)]_vars

\* c1's lock went stale during its run and c2 reclaimed it; c1's release
\* has returned True, the file is gone, and c2 is inside its protected
\* section with a record younger than its TTL.
C37_NewerLockRemoved ==
    /\ imp["c1"].phase = "in_release"
    /\ lm["c1"].pc = "idle" /\ lm["c1"].result = "true"
    /\ lockFile = AbsentFile
    /\ HoldsFreshLock("c2")
    /\ imp["c2"].lock.timestamp > imp["c1"].lock.timestamp

(***************************************************************************)
(* C38 -- what a refused acquire, and a refused import, leave behind       *)
(***************************************************************************)
\* The acquire call of c is about to read a record that is not stale.
FindsFreshLock(c) ==
    /\ lm[c].pc = "acq_read" /\ lm[c].op = "acquire"
    /\ ReadLockInfo(lockFile) # NoLock
    /\ ~IsStale(ReadLockInfo(lockFile), now)

\* ... and reads it in this step.
RefusedByFreshLock(c) == FindsFreshLock(c) /\ lm'[c].pc # lm[c].pc

\* C38: an acquire call that returns False because the existing lock is not
\* stale has not created, modified or deleted the lock file: the step leaves
\* the file alone and the call has unlinked nothing before.
C38_RefusedAcquireLeavesFile ==
    [][\A c \in Clients :
          RefusedByFreshLock(c)
             => /\ lm'[c].pc = "idle" /\ lm'[c].result = "false"
                /\ lockFile' = lockFile
                /\ lm[c].removed = "none"
      ]_vars

\* What holds of every such call: its last pass changes nothing.
C38_RefusingPassLeavesFile ==
    [][\A c \in Clients :
          RefusedByFreshLock(c)
             => /\ lm'[c].pc = "idle" /\ lm'[c].result = "false"
                /\ lockFile' = lockFile
      ]_vars

\* c2's acquire unlinked a lock younger than its TTL in its first pass, the
\* file was created again, and c2 is about to return False on a record that
\* is not stale.
C38_LiveLockRemoved ==
    /\ FindsFreshLock("c2")
    /\ lm["c2"].removed = "live"

\* ... or it removed the stale record it had examined and lost the race for
\* the file it then tried to create.
C38_StaleLockRemoved ==
    /\ FindsFreshLock("c2")
    /\ lm["c2"].removed = "stale"

(***************************************************************************)
(* C39 -- the outcome of a run whose metadata push went through            *)
(***************************************************************************)
\* The last call the run made is the metadata push, and its last attempt
\* returned: the commit is on the remote.
MetadataPushed ==
    /\ run.kind \in {"publish", "import"}
    /\ LastCall(wf.log) = "git_push"
    /\ wf.phase \notin {"inop", "notice"}
    /\ wf.tries = wf.fails + 1

\* C39: a publish or import run whose metadata push completed reports
\* success: it does not end with a failure or a cancellation, whenever the
\* cancel flag is raised.
C39_PushedRunSucceeds ==
    (Done /\ MetadataPushed) => (wf.result.set /\ wf.result.success)

\* What holds: a run whose metadata push completed ends with success or
\* with the cancellation, never with an error notification.
C39_PushedRunNeverFails ==
    (Done /\ MetadataPushed)
        => /\ wf.result.set
           /\ wf.result.success \/ wf.result.msg = CancelMsg
           /\ wf.errors = 0

\* A publish pushed its commit; cancel was requested while the push ran;
\* the run reported "Cancelled by user.".
C39_CancelledAfterPush ==
    /\ Done /\ MetadataPushed /\ run.kind = "publish"
    /\ wf.result = Result(FALSE, CancelMsg)
    /\ ~wf.pre /\ wf.fails = 0

(***************************************************************************)
(* C40 -- DataGestCore and the Workflow classes, side by side              *)
(***************************************************************************)
\* The same run made with the other implementation.
Twin(r) ==
    [r EXCEPT !.variant = IF @ = "core" THEN "workflow" ELSE "core"]

\* The instructions of a body that call something or decide the outcome;
\* the emission of history_loaded hands over what DataGestCore returns as
\* the third element of its result.
IsStep(ins) == ins.k # "deliver"

StepsOf(r) == SelectSeq(ProgramOf(r), IsStep)

\* C40: the two implementations of a workflow are observationally
\* equivalent.  Both go through the same positions, so they are equivalent
\* only if they react alike to the same event at the same position; the
\* event that tells them apart is a progress report of a content operation
\* that arrives while the cancel flag is set: in both implementations it
\* ends the run with the cancellation and without an error notification.
C40_ProgressReportCancels ==
    wf.reported
        => /\ wf.result = Result(FALSE, CancelMsg)
           /\ wf.errors = 0

\* Everywhere but at the content pull of import the two implementations
\* have the same instruction: the same operation, the same kind of
\* callback, the same condition and the same error handling.
C40_SameInstructionsElsewhere ==
    run.kind # "none"
        => /\ Len(StepsOf(run)) = Len(StepsOf(Twin(run)))
           /\ \A i \in 1..Len(StepsOf(run)) :
                 \/ StepsOf(run)[i] = StepsOf(Twin(run))[i]
                 \/ /\ run.kind = "import"
                    /\ StepsOf(run)[i].op = "dvc_pull"
                    /\ StepsOf(Twin(run))[i].op = "dvc_pull"

\* In the Workflow classes every progress report that arrives with the flag
\* set ends the run with the cancellation.
C40_WorkflowCancels ==
    (run.variant = "workflow" /\ wf.reported)
        => /\ wf.result = Result(FALSE, CancelMsg)
           /\ wf.errors = 0

\* DataGestCore.import_dataset: the content pull reported progress with the
\* flag set, went on, raised an error that is not retried, and the run ended
\* with that error and one error notification.
C40_CoreFailsAfterReport ==
    /\ Done /\ run.kind = "import" /\ run.variant = "core"
    /\ wf.reported /\ ~wf.seen
    /\ wf.result.set /\ ~wf.result.success
    /\ wf.result.msg.t = "error" /\ wf.result.msg.op = "dvc_pull"
    /\ wf.errors = 1

\* ImportWorkflow: the same report ended the run with "Cancelled by user.".
C40_WorkflowCancelsAtReport ==
    /\ Done /\ run.kind = "import" /\ run.variant = "workflow"
    /\ wf.reported
    /\ LastCall(wf.log) = "dvc_pull"
    /\ wf.result = Result(FALSE, CancelMsg)
    /\ wf.errors = 0
====
